---- MODULE Spec2Model ----
(***************************************************************************)
(* Model of the Appraisily image-generation service.                       *)
(*                                                                         *)
(*  - the orchestrator  imageGenerator.generateImage  and the provider     *)
(*    adapter  bfaiClient.generateImage  (submit + poll), the CDN upload   *)
(*    tiers of imagekit-client.js and the POST /api/generate handler;      *)
(*  - the cache store  image-cache.js  (manifest, local artifact           *)
(*    directory, cloud bucket, manifest file on disk).                     *)
(*                                                                         *)
(* Every await of the code is a step of the model: the environment         *)
(* (OpenAI, Black Forest AI, ImageKit, the file system) answers at that    *)
(* step, and the answer is drawn from a small set.                         *)
(*                                                                         *)
(* Strings that the code inspects with includes() are sequences of words;  *)
(* includes() is "occurs as a contiguous run of words", toLowerCase() maps *)
(* each word to its lower-case form.                                       *)
(***************************************************************************)
EXTENDS Integers, Sequences, FiniteSets, TLC

VARIABLES
    pc,                 \* position of the request being served
    req,                \* the request body: appraiser id, specialty, customPrompt
    nreq,               \* requests received so far
    prev,               \* what the previous answered request was and how it ended
    prompt,             \* the prompt generateImage holds
    bflApiKey,          \* bfai-client: module-level API key present
    attempts,           \* bfai-client: poll loop counter (0 outside the call)
    polls,              \* poll requests sent by the adapter call in progress
    jobStatus,          \* last status of the provider job
    generatedImage,     \* generateImage: the adapter's return value (its imageUrl)
    adapterErr,         \* the error the adapter threw, <<>> if none
    imageBuffer,        \* the downloaded bytes: "none", "empty" or "bytes"
    imagekit,           \* imagekit-client: module-level client constructed
    uploadLog,          \* upload functions entered, in order, with their outcome
    calls,              \* outbound calls made for the current request
    result,             \* what generateImage returned
    httpStatus,         \* status the handler answered with, 0 if none yet
    isRemoteEnvironment,\* NODE_ENV = production or IS_CLOUD_RUN = true
    cause,              \* the remote party's signal that made the adapter throw
    cacheManifest,      \* image-cache: cacheManifest.images, appraiser id -> entry
    promptsLog,         \* image-cache: promptsLog.prompts, appraiser id -> hash
    manifestFile,       \* content of data/cache-manifest.json, <<>> if absent
    localFiles,         \* file names present in the local artifact directory
    cloudFiles,         \* file names present in the storage bucket
    cacheImagekit,      \* image-cache: module-level ImageKit client constructed
    now,                \* the clock: the current date
    cpc,                \* position of each caller of the cache store
    cargs,              \* the arguments of each caller's saveToCache
    imagekitUrl,        \* saveToCache: the local imagekitUrl of each caller
    cacheEntry,         \* getFromCache: the entry each caller read
    snapshot,           \* the text each caller's writeJson is writing
    saved,              \* what saveToCache returned to each caller
    found,              \* what getFromCache returned to each caller
    writeFailed,        \* whether a manifest write of the caller failed, and where
    regen,              \* the last answer of shouldRegenerateImage
    appraiserPair,      \* two appraiser objects handed to generateAppraiserDataHash
    dataHash,           \* the hash computed for each of the two
    axiosError,         \* an axios error handed to the adapter's catch blocks
    thrown,             \* what the submit catch and the poll catch threw for it
    answered,           \* the status the API answers for each of the two
    cancelled,          \* the number of the request whose client went away, or 0
    appraisers,         \* generate-bulk: the list of the request body
    results,            \* generate-bulk: the results array of the background job
    bulk,               \* generate-bulk: position of the handler and of its job
    bulkIndex,          \* generate-bulk: position of the for loop in the list
    mediaLibrary,       \* ImageKit: the files stored in the media library
    ticks,              \* uploads made so far: the value of Date.now()
    promptFiles,        \* appraiser ids that have a file under data/prompts
    promptAnswer,       \* the last answer of GET /api/prompt/:appraiserId
    imagekitConfig,     \* imagekit-client: both keys of imagekitConfig are set
    ikInstance,         \* imagekit-client: the object the variable imagekit
                        \* holds, 0 for null
    constructed,        \* ImageKit objects constructed so far
    epc,                \* position of each caller of ensureImageKitClient
    eclient,            \* the object ensureImageKitClient returned to each
    ecalls,             \* calls of ensureImageKitClient each caller has made
    scriptAppraisers,   \* generate-bulk script: the list given to generateImages
    batchSize,          \* generate-bulk script: the batch size
    scriptIndex,        \* generate-bulk script: the loop variable i
    scriptResults,      \* generate-bulk script: the results array
    scriptPc            \* generate-bulk script: position of generateImages

genVars == <<pc, req, nreq, prev, prompt, bflApiKey, attempts, polls, jobStatus,
             generatedImage, adapterErr, imageBuffer, imagekit, uploadLog,
             calls, result, httpStatus, isRemoteEnvironment, cause>>

cacheVars == <<cacheManifest, promptsLog, manifestFile, localFiles, cloudFiles,
               cacheImagekit, now, cpc, cargs, imagekitUrl, cacheEntry, snapshot,
               saved, found, writeFailed, regen>>

hashVars == <<appraiserPair, dataHash>>

catchVars == <<axiosError, thrown, answered>>

bulkVars == <<appraisers, results, bulk, bulkIndex>>

cdnVars == <<mediaLibrary, ticks>>

promptVars == <<promptFiles, promptAnswer>>

ensureVars == <<imagekitConfig, ikInstance, constructed, epc, eclient, ecalls>>

batchVars == <<scriptAppraisers, batchSize, scriptIndex, scriptResults, scriptPc>>

auxVars == <<hashVars, catchVars, cancelled, bulkVars, cdnVars, promptVars,
             ensureVars, batchVars>>

vars == <<genVars, cacheVars, auxVars>>

----------------------------------------------------------------------------
(* Bounds *)

MaxRequests == 2

(* Program constants *)

maxAttempts == 30

----------------------------------------------------------------------------
(* Strings as word sequences *)

\* String.prototype.toLowerCase, word by word
Lower(w) ==
    CASE w = "Payment" -> "payment"
      [] w = "Credit"  -> "credit"
      [] w = "Billing" -> "billing"
      [] w = "Required" -> "required"
      [] OTHER -> w

ToLowerCase(s) == [i \in 1..Len(s) |-> Lower(s[i])]

\* String.prototype.includes
Includes(s, needle) ==
    \E i \in 0..(Len(s) - Len(needle)) :
        \A j \in 1..Len(needle) : s[i + j] = needle[j]

----------------------------------------------------------------------------
(* utils/logger.js *)

\* a logger object that also has the two methods the error paths call
LoggerMethodsEnhanced ==
    {"debug", "info", "warn", "error", "writeLog", "apiError", "paymentError"}

\* the methods of the logger object
LoggerMethods == {"debug", "info", "warn", "error", "writeLog"}

\* the message of the TypeError that the call of a method the object lacks throws
MsgNotAFunction(method) == <<"logger", method, "is", "not", "a", "function">>

----------------------------------------------------------------------------
(* Error messages of bfai-client.js *)

MsgNoKey == <<"Black", "Forest", "API", "Key", "not", "available">>

MsgPayment402 ==
    <<"Payment", "required", "for", "image", "generation", "(", "402", ")">>

MsgPaymentBody(e) ==
    <<"Payment", "required", "for", "image", "generation", ":">> \o e

\* axios: err.message of a response with a non-2xx status
AxiosStatusMsg(status) == <<"Request", "failed", "with", "status", "code", status>>

MsgNetwork == <<"connect", "ECONNREFUSED">>

MsgApiError(status) ==
    <<"Black", "Forest", "AI", "API", "error", "(", status, ")", ":">>
        \o AxiosStatusMsg(status)

MsgNoRequestId == <<"Failed", "to", "obtain", "request", "ID">>

MsgGenError(e) == <<"Error", "generating", "image", ":">> \o e

MsgTimedOut == <<"Timed", "out", "waiting", "for", "image", "generation">>

MsgNoImageUrl == <<"No", "image", "URL", "in", "response">>

\* data.error of a provider payload; NoText: the field is absent
NoText == <<>>

ErrTexts ==
    { NoText,
      <<"Insufficient", "credit", "s">>,
      <<"Payment", "declined">>,
      <<"code", "402">>,
      <<"Content", "moderated">> }

\* an axios error: with a response (status, body) or without one (network)
NoResponse == [status |-> "none", body |-> NoText]

HttpErrors ==
    { [status |-> s, body |-> b] : s \in {"402", "400", "500"}, b \in ErrTexts }
        \cup { NoResponse }

\* the keyword test the adapter applies to an error text
IsPaymentIssue(e) ==
    \/ Includes(e, <<"402">>)
    \/ Includes(ToLowerCase(e), <<"payment">>)
    \/ Includes(ToLowerCase(e), <<"credit">>)
    \/ Includes(ToLowerCase(e), <<"billing">>)

\* what the catch of the submit call throws when the logger has the given
\* methods: logger.apiError is called first, logger.paymentError before each
\* payment error
SubmitErrorWith(methods, e) ==
    IF "apiError" \notin methods THEN MsgNotAFunction("apiError")
    ELSE IF e.status # "none"
    THEN IF e.status = "402"
         THEN IF "paymentError" \notin methods
              THEN MsgNotAFunction("paymentError")
              ELSE MsgPayment402
         ELSE IF e.body # NoText /\ IsPaymentIssue(e.body)
              THEN IF "paymentError" \notin methods
                   THEN MsgNotAFunction("paymentError")
                   ELSE MsgPaymentBody(e.body)
              ELSE MsgApiError(e.status)
    ELSE MsgNetwork

\* what the catch of the submit call throws
SubmitError(apiError) == SubmitErrorWith(LoggerMethods, apiError)

\* what the catch of a poll call throws when the logger has the given methods
PollErrorWith(methods, e) ==
    IF "apiError" \notin methods THEN MsgNotAFunction("apiError")
    ELSE IF e.status # "none" /\ e.status = "402"
    THEN IF "paymentError" \notin methods
         THEN MsgNotAFunction("paymentError")
         ELSE MsgPayment402
    ELSE IF e.status # "none"
         THEN AxiosStatusMsg(e.status)
         ELSE MsgNetwork

\* what the catch of a poll call throws
PollError(pollError) == PollErrorWith(LoggerMethods, pollError)

\* what a poll answer with status 'Error' throws when the logger has the given
\* methods
JobErrorWith(methods, error) ==
    LET errorMsg == IF error = NoText THEN <<"Unknown", "error">> ELSE error
    IN  IF IsPaymentIssue(errorMsg)
        THEN IF "paymentError" \notin methods
             THEN MsgNotAFunction("paymentError")
             ELSE MsgPaymentBody(errorMsg)
        ELSE MsgGenError(errorMsg)

\* what a poll answer with status 'Error' throws
JobError(error) == JobErrorWith(LoggerMethods, error)

\* the remote party's signal behind an axios error
HttpCause(e) ==
    IF e.status = "none" THEN "network"
    ELSE IF e.status = "402" THEN "http402"
    ELSE IF e.status = "500" THEN "http5xx"
    ELSE "http4xx"

\* the signal behind a failed submit: a payment keyword in the error payload
\* counts only when the status is not already 402
SubmitCause(e) ==
    IF e.status \notin {"none", "402"} /\ e.body # NoText /\ IsPaymentIssue(e.body)
    THEN "bodyPayment"
    ELSE HttpCause(e)

\* a loop that runs once more: while (attempts <= maxAttempts)
LoopCondOffByOne(a) == a <= maxAttempts

\* while (attempts < maxAttempts)
LoopCond(a) == a < maxAttempts

----------------------------------------------------------------------------
(* Result envelopes of image-generator.js generateImage *)

NoResult ==
    [kind |-> "none", imageUrl |-> "none", cached |-> FALSE, prompt |-> "none",
     source |-> "none", error |-> <<>>]

\* a success result that claims to come from the cache
SuccessResultCached(url) ==
    [kind |-> "success", imageUrl |-> url, cached |-> TRUE, prompt |-> prompt,
     source |-> "black-forest-ai", error |-> <<>>]

\* a success result labelled with the provider of an earlier version
SuccessResultFalAi(url) ==
    [kind |-> "success", imageUrl |-> url, cached |-> FALSE, prompt |-> prompt,
     source |-> "fal-ai", error |-> <<>>]

\* the return after a successful ImageKit upload
SuccessResult(url) ==
    [kind |-> "success", imageUrl |-> url, cached |-> FALSE, prompt |-> prompt,
     source |-> "black-forest-ai", error |-> <<>>]

\* an inner catch that forgets the provider URL
FallbackDropped ==
    [kind |-> "error", imageUrl |-> "none", cached |-> FALSE, prompt |-> "none",
     source |-> "none",
     error |-> <<"Failed", "to", "upload", "image", "to", "ImageKit">>]

\* the return of the inner catch when the provider URL is known
FallbackResult ==
    [kind |-> "fallback", imageUrl |-> generatedImage, cached |-> FALSE,
     prompt |-> prompt, source |-> "black-forest-ai", error |-> <<>>]

\* an error result that drops the adapter's message
ErrorResultNoDetail(msg) ==
    [kind |-> "error", imageUrl |-> "none", cached |-> FALSE, prompt |-> "none",
     source |-> "none", error |-> <<"Failed", "to", "generate", "image">>]

\* the return of the inner catch when there is no provider URL
ErrorResult(msg) ==
    [kind |-> "error", imageUrl |-> "none", cached |-> FALSE, prompt |-> "none",
     source |-> "none",
     error |-> <<"Failed", "to", "generate", "image", ":">> \o msg]

\* The model tags the body of POST /api/generate-location, which carries a
\* location and no appraiser, in the specialty field of req.
IsLocation == req.specialty = "location"

MsgWriteFile == <<"ENOSPC", "no", "space", "left", "on", "device">>

MsgDownload == <<"Failed", "to", "download", "image", "status", "code", "404">>

\* an outer catch that lets the exception leave generateLocationImage
LocationRethrow(msg) ==
    [kind |-> "thrown", imageUrl |-> "none", cached |-> FALSE, prompt |-> "none",
     source |-> "none", error |-> msg]

\* generateLocationImage: the return of its outer catch
LocationError(msg) ==
    [kind |-> "error", imageUrl |-> "none", cached |-> FALSE, prompt |-> "none",
     source |-> "internal_error",
     error |-> <<"Failed", "to", "generate", "location", "image", ":">> \o msg]

\* generateLocationImage: the return after the upload attempt, with the
\* ImageKit url when there is one and the provider's url otherwise
LocationResult(ikUrl) ==
    [kind |-> IF ikUrl # "none" THEN "success" ELSE "fallback",
     imageUrl |-> IF ikUrl # "none" THEN ikUrl ELSE generatedImage,
     cached |-> FALSE, prompt |-> prompt,
     source |-> IF ikUrl # "none" THEN "imagekit" ELSE "bfai",
     error |-> <<>>]

\* index.js: the test that answers 402
IsPaymentRequired(error) ==
    Includes(error, <<"Payment", "required">>) \/ Includes(error, <<"402">>)

NoCalls ==
    [gpt |-> 0, adapter |-> 0, submit |-> 0, download |-> 0, upload |-> 0]

NoPrev == [id |-> "none", specialty |-> "none", ok |-> FALSE]

Ids == {"a1", "a2"}

Specialties == {"modern", "antique"}

----------------------------------------------------------------------------
(* POST /api/generate and imageGenerator.generateImage *)

NoId == "none"

NoCustomPrompt == "none"

Add(c, field) == [c EXCEPT ![field] = @ + 1]

\* an orchestrator that ignores the environment
FirstTierAlwaysBuffer(remote) == "up_buffer"

\* the first upload function generateImage calls
FirstTier(remote) == IF remote THEN "up_base64" ELSE "up_buffer"

\* a handler that hands every body to generateImage
ReceiveUnchecked(id, sp, cp) ==
    /\ pc \in {"idle", "done"}
    /\ nreq < MaxRequests
    /\ nreq' = nreq + 1
    /\ req' = [id |-> id, specialty |-> sp, customPrompt |-> cp]
    /\ prev' = IF pc = "done" /\ req.id # NoId
               THEN [id |-> req.id, specialty |-> req.specialty,
                     ok |-> result.kind \in {"success", "fallback"}]
               ELSE NoPrev
    /\ prompt' = "none"
    /\ attempts' = 0
    /\ polls' = 0
    /\ jobStatus' = "none"
    /\ generatedImage' = "none"
    /\ adapterErr' = <<>>
    /\ cause' = "none"
    /\ imageBuffer' = "none"
    /\ uploadLog' = <<>>
    /\ calls' = NoCalls
    /\ result' = NoResult
    /\ httpStatus' = 0
    /\ pc' = "prompt"
    /\ UNCHANGED <<bflApiKey, imagekit, isRemoteEnvironment>>

\* The handler receives a request body.  A body without appraiser or without
\* appraiser.id is answered 400; otherwise generateImage starts.
Receive(id, sp, cp) ==
    /\ pc \in {"idle", "done"}
    /\ nreq < MaxRequests
    /\ nreq' = nreq + 1
    /\ req' = [id |-> id, specialty |-> sp, customPrompt |-> cp]
    /\ prev' = IF pc = "done" /\ req.id # NoId
               THEN [id |-> req.id, specialty |-> req.specialty,
                     ok |-> result.kind \in {"success", "fallback"}]
               ELSE NoPrev
    /\ prompt' = "none"
    /\ attempts' = 0
    /\ polls' = 0
    /\ jobStatus' = "none"
    /\ generatedImage' = "none"
    /\ adapterErr' = <<>>
    /\ cause' = "none"
    /\ imageBuffer' = "none"
    /\ uploadLog' = <<>>
    /\ calls' = NoCalls
    /\ result' = NoResult
    /\ IF id = NoId
       THEN httpStatus' = 400 /\ pc' = "done"
       ELSE httpStatus' = 0 /\ pc' = "prompt"
    /\ UNCHANGED <<bflApiKey, imagekit, isRemoteEnvironment>>

GptOutcomes == {"nokey", "neterr", "apierr", "malformed", "empty", "ok"}

\* a generateImage that has no customPrompt parameter
BuildPromptNoOverride(o) ==
    /\ pc = "prompt"
    /\ prompt' = CASE o = "ok" -> "gpt"
                   [] o = "empty" -> "empty"
                   [] OTHER -> "basic"
    /\ calls' = IF o = "nokey" THEN calls ELSE Add(calls, "gpt")
    /\ pc' = "submit"
    /\ UNCHANGED <<req, nreq, prev, bflApiKey, attempts, polls, jobStatus,
                   generatedImage, adapterErr, imageBuffer, imagekit,
                   uploadLog, result, httpStatus, isRemoteEnvironment, cause>>

\* generateImage: the prompt is the custom prompt, or createPromptWithGPT's,
\* or createBasicPrompt's when createPromptWithGPT throws.
BuildPrompt(o) ==
    /\ pc = "prompt"
    /\ IF req.customPrompt # NoCustomPrompt
       THEN /\ o = "ok"
            /\ prompt' = "custom"
            /\ calls' = calls
       ELSE /\ prompt' = CASE o = "ok" -> "gpt"
                           [] o = "empty" -> "empty"
                           [] OTHER -> "basic"
            /\ calls' = IF o = "nokey" THEN calls ELSE Add(calls, "gpt")
    /\ pc' = "submit"
    /\ UNCHANGED <<req, nreq, prev, bflApiKey, attempts, polls, jobStatus,
                   generatedImage, adapterErr, imageBuffer, imagekit,
                   uploadLog, result, httpStatus, isRemoteEnvironment, cause>>

\* an orchestrator that calls the adapter a second time after a failure
AdapterThrowRetry(msg, c) ==
    /\ adapterErr' = msg
    /\ cause' = c
    /\ attempts' = 0
    /\ polls' = 0
    /\ IF calls'.adapter < 2
       THEN result' = result /\ pc' = "submit"
       ELSE result' = ErrorResult(msg) /\ pc' = "respond"

\* bfaiClient.generateImage throws (its locals are gone); generateImage's inner
\* catch has no provider URL and returns the error result.
AdapterThrow(msg, c) ==
    /\ adapterErr' = msg
    /\ cause' = c
    /\ attempts' = 0
    /\ polls' = 0
    /\ result' = IF IsLocation THEN LocationError(msg) ELSE ErrorResult(msg)
    /\ pc' = IF IsLocation THEN "l_respond" ELSE "respond"

SubmitOutcomes ==
    { [t |-> "ok", id |-> b, err |-> NoResponse] : b \in BOOLEAN }
        \cup { [t |-> "http", id |-> FALSE, err |-> e] : e \in HttpErrors }

\* bfaiClient.generateImage up to the poll loop: ensureApiKey, then the submit.
Submit(keyFound, o) ==
    /\ pc = "submit"
    /\ generatedImage' = "none"
    /\ IF ~bflApiKey /\ ~keyFound
       THEN /\ calls' = Add(calls, "adapter")
            /\ bflApiKey' = FALSE
            /\ jobStatus' = "none"
            /\ o = [t |-> "ok", id |-> TRUE, err |-> NoResponse]
            /\ AdapterThrow(MsgNoKey, "nokey")
       ELSE /\ calls' = Add(Add(calls, "adapter"), "submit")
            /\ bflApiKey' = TRUE
            /\ IF o.t = "http"
               THEN /\ jobStatus' = "none"
                    /\ AdapterThrow(SubmitError(o.err), SubmitCause(o.err))
               ELSE IF ~o.id
               THEN /\ jobStatus' = "none"
                    /\ AdapterThrow(MsgNoRequestId, "noid")
               ELSE /\ jobStatus' = "Submitted"
                    /\ attempts' = 0
                    /\ polls' = 0
                    /\ pc' = "poll"
                    /\ UNCHANGED <<adapterErr, cause, result>>
    /\ UNCHANGED <<req, nreq, prev, prompt, imageBuffer, imagekit, uploadLog,
                   httpStatus, isRemoteEnvironment>>

PollOutcomes ==
    { [t |-> "status", status |-> "Pending", sample |-> FALSE, error |-> NoText,
       err |-> NoResponse] }
        \cup { [t |-> "status", status |-> "Ready", sample |-> b,
                error |-> NoText, err |-> NoResponse] : b \in BOOLEAN }
        \cup { [t |-> "status", status |-> "Error", sample |-> FALSE,
                error |-> e, err |-> NoResponse] : e \in ErrTexts }
        \cup { [t |-> "http", status |-> "none", sample |-> FALSE,
                error |-> NoText, err |-> e] : e \in HttpErrors }

\* a comparison that never matches the provider's 'Ready'
IsReadyTypo(status) == status = "ready"

\* resultResponse.data.status === 'Ready'
IsReady(status) == status = "Ready"

\* result.result.sample of a Ready answer: the artifact URL, "none" when the
\* answer has no result or an empty sample
SampleOf(o) == IF o.sample THEN "bfl_sample" ELSE "none"

\* a Ready answer taken as it is
HasSampleUnchecked(o) == TRUE

\* the negation of !result.result || !result.result.sample
HasSample(o) == SampleOf(o) # "none"

\* One iteration of the poll loop: attempts++, the 500 ms sleep, the poll
\* request and the tests of its answer.
Poll(o) ==
    /\ pc = "poll"
    /\ LoopCond(attempts)
    /\ calls' = calls
    /\ IF o.t = "http"
       THEN /\ AdapterThrow(PollError(o.err), HttpCause(o.err))
            /\ UNCHANGED <<jobStatus, generatedImage>>
       ELSE /\ jobStatus' = o.status
            /\ IF o.status = "Error"
               THEN /\ AdapterThrow(JobError(o.error),
                                    IF o.error # NoText /\ IsPaymentIssue(o.error)
                                    THEN "jobErrorPayment" ELSE "jobError")
                    /\ UNCHANGED generatedImage
               ELSE IF IsReady(o.status)
               THEN IF HasSample(o)
                    THEN /\ generatedImage' = SampleOf(o)
                         /\ attempts' = 0
                         /\ polls' = 0
                         /\ pc' = IF IsLocation THEN "l_download" ELSE "download"
                         /\ UNCHANGED <<adapterErr, cause, result>>
                    ELSE /\ AdapterThrow(MsgNoImageUrl, "nosample")
                         /\ UNCHANGED generatedImage
               ELSE /\ attempts' = attempts + 1
                    /\ polls' = polls + 1
                    /\ UNCHANGED <<pc, generatedImage, adapterErr, cause,
                                   result>>
    /\ UNCHANGED <<req, nreq, prev, prompt, bflApiKey, imageBuffer, imagekit,
                   uploadLog, httpStatus, isRemoteEnvironment>>

\* The loop ends with result still null.
PollTimeout ==
    /\ pc = "poll"
    /\ ~LoopCond(attempts)
    /\ calls' = calls
    /\ AdapterThrow(MsgTimedOut, "timeout")
    /\ UNCHANGED <<req, nreq, prev, prompt, bflApiKey, jobStatus,
                   generatedImage, imageBuffer, imagekit, uploadLog,
                   httpStatus, isRemoteEnvironment>>

\* generateImage: downloadImage(generatedImage.imageUrl).  A failure is caught
\* by the inner catch, which now has the provider URL.
Download(o) ==
    /\ pc = "download"
    /\ calls' = Add(calls, "download")
    /\ IF o = "fail"
       THEN /\ result' = FallbackResult
            /\ pc' = "respond"
            /\ UNCHANGED imageBuffer
       ELSE /\ imageBuffer' = o
            /\ pc' = FirstTier(isRemoteEnvironment)
            /\ UNCHANGED result
    /\ UNCHANGED <<req, nreq, prev, prompt, bflApiKey, attempts, polls,
                   jobStatus, generatedImage, adapterErr, imagekit, uploadLog,
                   httpStatus, isRemoteEnvironment, cause>>

----------------------------------------------------------------------------
(* imagekit-client.js *)

\* what client.upload answers: a response with a url, null, a response
\* without url, an SDK error whose message mentions base64 or data URI, any
\* other SDK error
CdnOutcomes == {"ok", "empty", "nourl", "err_base64", "err"}

\* ensureImageKitClient: the client exists, or the credentials are found and it
\* is constructed, or they are not found and it throws
EnsureOutcomes == IF imagekit THEN {TRUE} ELSE BOOLEAN

\* response.url of what client.upload answered, "none" when there is no
\* response or the response has no url
ResponseUrl(outcome) == IF outcome = "ok" THEN "ik_url" ELSE "none"

\* the upload function threw before client.upload answered, or client.upload
\* rejected
Threw(outcome) == outcome \in {"nocall", "err_base64", "err"}

\* an upload function that hands on whatever client.upload answered
ReturnsUnchecked(outcome) == ~Threw(outcome)

\* the upload function reaches its return: client.upload answered and the
\* tests !response and !response.url both passed
Returns(outcome) ==
    ~Threw(outcome) /\ outcome # "empty" /\ ResponseUrl(outcome) # "none"

\* an upload function was entered; sent: it reached client.upload; ok: it
\* returned a result; url: the url of the result it returned; cdn: what
\* client.upload answered
\* the error object an upload call raises: the call it was created in and what
\* made it; NoError while the function has not thrown
NoError == [attempt |-> 0, cdn |-> "none"]

ErrorOf(attempt, outcome) == [attempt |-> attempt, cdn |-> outcome]

\* what an upload function raises by itself: nothing when it returns, and
\* nothing yet when uploadImageFromBase64 starts its recovery
Raised(fn, outcome) ==
    IF Returns(outcome) \/ (fn = "uploadImageFromBase64" /\ outcome = "err_base64")
    THEN NoError
    ELSE ErrorOf(Len(uploadLog) + 1, outcome)

Logged(fn, outcome) ==
    Append(uploadLog, [fn |-> fn, sent |-> outcome # "nocall", cdn |-> outcome,
                       ok |-> Returns(outcome),
                       url |-> IF Returns(outcome) THEN ResponseUrl(outcome)
                               ELSE "none",
                       raised |-> Raised(fn, outcome)])

\* a recovery that lets its own error escape
RecoveryRaisedLast(uploadError, recoveryError) == recoveryError

\* catch (recoveryError) { ...; throw uploadError }
RecoveryRaised(uploadError, recoveryError) == uploadError

\* generateImage: every upload function threw; the inner catch returns the
\* provider URL.  Otherwise the ImageKit url is returned.
Uploaded(url) == result' = SuccessResult(url) /\ pc' = "respond"

\* uploadImage(imageBuffer, fileName), called first in a local environment;
\* when it throws generateImage calls uploadImageFromUrl.
UploadImage(ensured, cdn) ==
    /\ pc = "up_buffer"
    /\ ensured \in EnsureOutcomes
    /\ imagekit' = ensured
    /\ IF ~ensured
       THEN /\ cdn = "err"
            /\ uploadLog' = Logged("uploadImage", "nocall")
            /\ calls' = calls
            /\ pc' = "up_url"
            /\ UNCHANGED result
       ELSE /\ uploadLog' = Logged("uploadImage", cdn)
            /\ calls' = Add(calls, "upload")
            /\ IF Returns(cdn)
               THEN Uploaded("ik_buffer")
               ELSE pc' = "up_url" /\ UNCHANGED result
    /\ UNCHANGED <<req, nreq, prev, prompt, bflApiKey, attempts, polls, jobStatus,
                   generatedImage, adapterErr, imageBuffer, httpStatus,
                   isRemoteEnvironment, cause>>

\* uploadImageFromBase64(base64Data, fileName), called first in a remote
\* environment, up to the answer of its own client.upload.  An empty string
\* is rejected before any upload; an SDK error that mentions base64 or data
\* URI starts the recovery through uploadImage.
UploadImageFromBase64(ensured, cdn) ==
    /\ pc = "up_base64"
    /\ ensured \in EnsureOutcomes
    /\ imagekit' = ensured
    /\ IF ~ensured \/ imageBuffer = "empty"
       THEN /\ cdn = "err"
            /\ uploadLog' = Logged("uploadImageFromBase64", "nocall")
            /\ calls' = calls
            /\ pc' = "up_url"
            /\ UNCHANGED result
       ELSE /\ uploadLog' = Logged("uploadImageFromBase64", cdn)
            /\ calls' = Add(calls, "upload")
            /\ IF Returns(cdn)
               THEN Uploaded("ik_base64")
               ELSE /\ pc' = IF cdn = "err_base64" THEN "up_recover"
                             ELSE "up_url"
                    /\ UNCHANGED result
    /\ UNCHANGED <<req, nreq, prev, prompt, bflApiKey, attempts, polls, jobStatus,
                   generatedImage, adapterErr, imageBuffer, httpStatus,
                   isRemoteEnvironment, cause>>

\* uploadImageFromBase64's recovery: uploadImage on the decoded buffer; when
\* that throws, the original upload error is rethrown.
UploadRecover(cdn) ==
    /\ pc = "up_recover"
    /\ uploadLog' =
         LET n == Len(uploadLog)
             uploadError == ErrorOf(n, uploadLog[n].cdn)
             recoveryError == ErrorOf(n + 1, cdn)
             log == Logged("uploadImage", cdn)
         IN  IF Returns(cdn) THEN log
             ELSE [log EXCEPT ![n].raised =
                       RecoveryRaised(uploadError, recoveryError)]
    /\ calls' = Add(calls, "upload")
    /\ IF Returns(cdn)
       THEN Uploaded("ik_buffer")
       ELSE pc' = "up_url" /\ UNCHANGED result
    /\ UNCHANGED <<req, nreq, prev, prompt, bflApiKey, attempts, polls, jobStatus,
                   generatedImage, adapterErr, imageBuffer, imagekit,
                   httpStatus, isRemoteEnvironment, cause>>

\* uploadImageFromUrl(generatedImage.imageUrl, fileName), the fallback of both
\* environments; when it throws too the inner catch returns the provider URL.
UploadImageFromUrl(ensured, cdn) ==
    /\ pc = "up_url"
    /\ ensured \in EnsureOutcomes
    /\ imagekit' = ensured
    /\ IF ~ensured
       THEN /\ cdn = "err"
            /\ uploadLog' = Logged("uploadImageFromUrl", "nocall")
            /\ calls' = calls
            /\ result' = FallbackResult
            /\ pc' = "respond"
       ELSE /\ uploadLog' = Logged("uploadImageFromUrl", cdn)
            /\ calls' = Add(calls, "upload")
            /\ IF Returns(cdn)
               THEN Uploaded("ik_url")
               ELSE result' = FallbackResult /\ pc' = "respond"
    /\ UNCHANGED <<req, nreq, prev, prompt, bflApiKey, attempts, polls, jobStatus,
                   generatedImage, adapterErr, imageBuffer, httpStatus,
                   isRemoteEnvironment, cause>>

----------------------------------------------------------------------------
(* index.js: the answer of POST /api/generate *)

\* the answer of the catch around generateImage to a thrown error; an error
\* thrown inside it reaches the handler's outer catch, which answers 500
CatchStatusWith(methods, msg) ==
    IF Includes(msg, <<"402">>) \/ Includes(ToLowerCase(msg), <<"payment", "required">>)
    THEN IF "paymentError" \notin methods THEN 500 ELSE 402
    ELSE 500

\* the status the handler answers when the logger has the given methods:
\* logger.paymentError is called before the answer 402
StatusForWith(methods, r) ==
    IF r.kind = "error"
    THEN IF IsPaymentRequired(r.error)
         THEN IF "paymentError" \notin methods
              THEN CatchStatusWith(methods, MsgNotAFunction("paymentError"))
              ELSE 402
         ELSE 500
    ELSE 200

StatusFor(r) == StatusForWith(LoggerMethods, r)

Respond ==
    /\ pc = "respond"
    /\ httpStatus' = StatusFor(result)
    /\ pc' = "done"
    /\ UNCHANGED <<req, nreq, prev, prompt, bflApiKey, attempts, polls, jobStatus,
                   generatedImage, adapterErr, imageBuffer, imagekit,
                   uploadLog, calls, result, isRemoteEnvironment, cause>>

----------------------------------------------------------------------------
(* POST /api/generate-location and imageGenerator.generateLocationImage *)

LocationIds == {"l1"}

\* The handler receives a request body.  A body without location or without
\* location.id is answered 400; otherwise generateLocationImage starts.
ReceiveLocation(id, cp) ==
    /\ pc \in {"idle", "done"}
    /\ nreq < MaxRequests
    /\ nreq' = nreq + 1
    /\ req' = [id |-> id, specialty |-> "location", customPrompt |-> cp]
    /\ prev' = NoPrev
    /\ prompt' = "none"
    /\ attempts' = 0
    /\ polls' = 0
    /\ jobStatus' = "none"
    /\ generatedImage' = "none"
    /\ adapterErr' = <<>>
    /\ cause' = "none"
    /\ imageBuffer' = "none"
    /\ uploadLog' = <<>>
    /\ calls' = NoCalls
    /\ result' = NoResult
    /\ IF id = NoId
       THEN httpStatus' = 400 /\ pc' = "done"
       ELSE httpStatus' = 0 /\ pc' = "l_prompt"
    /\ UNCHANGED <<bflApiKey, imagekit, isRemoteEnvironment>>

\* generateLocationImage up to the adapter call: the prompt is the custom
\* prompt or the template of the location type, and it is written to the
\* prompts directory; a failed write reaches the outer catch.
LocationPrompt(o) ==
    /\ pc = "l_prompt"
    /\ prompt' = IF req.customPrompt # NoCustomPrompt THEN "custom"
                 ELSE "template"
    /\ IF o = "err"
       THEN /\ result' = LocationError(MsgWriteFile)
            /\ cause' = "writeFile"
            /\ pc' = "l_respond"
       ELSE /\ pc' = "submit"
            /\ UNCHANGED <<result, cause>>
    /\ UNCHANGED <<req, nreq, prev, bflApiKey, attempts, polls, jobStatus,
                   generatedImage, adapterErr, imageBuffer, imagekit,
                   uploadLog, calls, httpStatus, isRemoteEnvironment>>

\* generateLocationImage: downloadImage(bfaiResponse.imageUrl), then the
\* image is written to the images directory; a failure of either reaches the
\* outer catch.
LocationDownload(o) ==
    /\ pc = "l_download"
    /\ calls' = Add(calls, "download")
    /\ CASE o = "fail" ->
              /\ result' = LocationError(MsgDownload)
              /\ cause' = "download"
              /\ pc' = "l_respond"
              /\ UNCHANGED imageBuffer
         [] o = "writeerr" ->
              /\ result' = LocationError(MsgWriteFile)
              /\ cause' = "writeFile"
              /\ imageBuffer' = "bytes"
              /\ pc' = "l_respond"
         [] OTHER ->
              /\ imageBuffer' = o
              /\ pc' = "l_upload"
              /\ UNCHANGED <<result, cause>>
    /\ UNCHANGED <<req, nreq, prev, prompt, bflApiKey, attempts, polls,
                   jobStatus, generatedImage, adapterErr, imagekit, uploadLog,
                   httpStatus, isRemoteEnvironment>>

\* generateLocationImage: the one upload attempt, uploadImage(imageBuffer,
\* name, options), whose errors are swallowed, and the return.
LocationUpload(ensured, cdn) ==
    /\ pc = "l_upload"
    /\ ensured \in EnsureOutcomes
    /\ imagekit' = ensured
    /\ IF ~ensured
       THEN /\ cdn = "err"
            /\ uploadLog' = Logged("uploadImage", "nocall")
            /\ calls' = calls
            /\ result' = LocationResult("none")
       ELSE /\ uploadLog' = Logged("uploadImage", cdn)
            /\ calls' = Add(calls, "upload")
            /\ result' = LocationResult(IF Returns(cdn) THEN "ik_buffer"
                                        ELSE "none")
    /\ pc' = "l_respond"
    /\ UNCHANGED <<req, nreq, prev, prompt, bflApiKey, attempts, polls, jobStatus,
                   generatedImage, adapterErr, imageBuffer, httpStatus,
                   isRemoteEnvironment, cause>>

\* index.js: the answer of POST /api/generate-location
LocationStatusFor(r) == IF r.kind \in {"error", "thrown"} THEN 500 ELSE 200

LocationRespond ==
    /\ pc = "l_respond"
    /\ httpStatus' = LocationStatusFor(result)
    /\ pc' = "done"
    /\ UNCHANGED <<req, nreq, prev, prompt, bflApiKey, attempts, polls, jobStatus,
                   generatedImage, adapterErr, imageBuffer, imagekit,
                   uploadLog, calls, result, isRemoteEnvironment, cause>>

----------------------------------------------------------------------------
(* image-cache.js: the cache store *)

Procs == {"p1", "p2"}

Files == {"x.jpg", "y.jpg"}

Hashes == {"h1", "h2"}

NoDate == [m |-> 0, d |-> 0]

NoUrl == [kind |-> "null", file |-> "none"]

ImagekitUrl(filename) == [kind |-> "imagekit", file |-> filename]

LocalUrl(filename) == [kind |-> "local", file |-> filename]

NoEntry == [filename |-> "none", imagekitUrl |-> NoUrl, hash |-> "none",
            cachedAt |-> NoDate]

NoArgs == [id |-> NoId, filename |-> "none", imageBuffer |-> FALSE,
           hash |-> "none", prompt |-> FALSE]

NoSaved == [returned |-> FALSE, success |-> FALSE, imagekitUrl |-> NoUrl,
            localUrl |-> NoUrl]

NoFound == [returned |-> FALSE, hit |-> FALSE, imageUrl |-> NoUrl,
            hash |-> "none"]

\* getFromCache returns null
Miss == [returned |-> TRUE, hit |-> FALSE, imageUrl |-> NoUrl, hash |-> "none"]

\* getFromCache returns { imageUrl, metadata, prompt }
Hit(url, entry) ==
    [returned |-> TRUE, hit |-> TRUE, imageUrl |-> url, hash |-> entry.hash]

NoRegen == [id |-> NoId, newHash |-> "none", result |-> FALSE]

EmptyManifest == [i \in Ids |-> NoEntry]

(* The manifest file.  JSON text is a sequence of tokens: the opening brace, *)
(* one token per entry of images, the closing brace.                         *)

IdOrder == <<"a1", "a2">>

OpenBrace == [t |-> "{", id |-> NoId, entry |-> NoEntry]

CloseBrace == [t |-> "}", id |-> NoId, entry |-> NoEntry]

EntryToken(id, entry) == [t |-> "entry", id |-> id, entry |-> entry]

RECURSIVE EntryTokens(_, _)
EntryTokens(manifest, i) ==
    IF i > Len(IdOrder) THEN <<>>
    ELSE (IF manifest[IdOrder[i]] = NoEntry THEN <<>>
          ELSE <<EntryToken(IdOrder[i], manifest[IdOrder[i]])>>)
         \o EntryTokens(manifest, i + 1)

\* JSON.stringify(cacheManifest), as fs.writeJson computes it when called
Stringify(manifest) == <<OpenBrace>> \o EntryTokens(manifest, 1) \o <<CloseBrace>>

\* the file after `text` is written at offset 0 of a file holding `file`
WriteAtStart(file, text) ==
    [i \in 1..(IF Len(file) > Len(text) THEN Len(file) ELSE Len(text)) |->
        IF i <= Len(text) THEN text[i] ELSE file[i]]

\* the text parses as JSON
WellFormed(text) ==
    /\ Len(text) >= 2
    /\ text[1] = OpenBrace
    /\ text[Len(text)] = CloseBrace
    /\ \A i \in 2..(Len(text) - 1) : text[i].t = "entry"
    /\ \A i, j \in 2..(Len(text) - 1) : text[i].id = text[j].id => i = j

\* fs.readJsonSync of a well-formed text: the manifest a restart would load
ReadJson(text) ==
    [i \in Ids |->
        IF \E k \in 1..Len(text) : text[k].t = "entry" /\ text[k].id = i
        THEN (text[CHOOSE k \in 1..Len(text) :
                       text[k].t = "entry" /\ text[k].id = i]).entry
        ELSE NoEntry]

(* Dates.  A date is a month counted from January of year 0 and a day of the *)
(* month; years are not leap years.                                          *)

DaysIn(m) ==
    IF m % 12 = 1 THEN 28
    ELSE IF m % 12 \in {3, 5, 8, 10} THEN 30 ELSE 31

Before(a, b) == a.m < b.m \/ (a.m = b.m /\ a.d < b.d)

\* Date.prototype.setMonth: the day of the month is kept, and a day the month
\* does not have rolls over into the following month
SetMonth(date, m) ==
    IF date.d > DaysIn(m)
    THEN [m |-> m + 1, d |-> date.d - DaysIn(m)]
    ELSE [m |-> m, d |-> date.d]

MaxAgeMonths == 6

SixMonthsAgo(date) == SetMonth(date, date.m - MaxAgeMonths)

\* a freshness test that looks at the age of the entry only
ShouldRegenerateByAgeOnly(appraiserId, newHash) ==
    IF cacheManifest[appraiserId] = NoEntry THEN TRUE
    ELSE IF Before(cacheManifest[appraiserId].cachedAt, SixMonthsAgo(now)) THEN TRUE
    ELSE FALSE

ShouldRegenerateImage(appraiserId, newHash) ==
    IF cacheManifest[appraiserId] = NoEntry THEN TRUE
    ELSE IF cacheManifest[appraiserId].hash # newHash THEN TRUE
    ELSE IF Before(cacheManifest[appraiserId].cachedAt, SixMonthsAgo(now)) THEN TRUE
    ELSE FALSE

Set(f, p, v) == [f EXCEPT ![p] = v]

MarkFailed(p, where) ==
    Set(writeFailed, p, IF writeFailed[p] = "none" THEN where ELSE writeFailed[p])

\* saveToCache is called: the synchronous part up to the first await
SaveToCache(p, appraiserId, filename, buffer, hash, withPrompt) ==
    /\ cpc[p] = "idle"
    /\ cargs' = Set(cargs, p, [id |-> appraiserId, filename |-> filename,
                               imageBuffer |-> buffer, hash |-> hash,
                               prompt |-> withPrompt])
    /\ cpc' = Set(cpc, p, "s_file")
    /\ UNCHANGED <<cacheManifest, promptsLog, manifestFile, localFiles, cloudFiles,
                   cacheImagekit, now, imagekitUrl, cacheEntry, snapshot, saved,
                   found, writeFailed, regen>>

\* a put that adds an entry for a new id only and leaves an existing entry alone
UpdateManifestKeepOld(p, url) ==
    /\ imagekitUrl' = Set(imagekitUrl, p, url)
    /\ cacheManifest' = IF cacheManifest[cargs[p].id] # NoEntry THEN cacheManifest
                        ELSE Set(cacheManifest, cargs[p].id,
                                 [filename |-> cargs[p].filename, imagekitUrl |-> url,
                                  hash |-> cargs[p].hash, cachedAt |-> now])
    /\ snapshot' = Set(snapshot, p, Stringify(cacheManifest'))
    /\ cpc' = Set(cpc, p, "s_open")

\* lines 184-194: the entry is assigned and saveManifest calls fs.writeJson, which
\* stringifies the manifest before its first await
UpdateManifest(p, url) ==
    /\ imagekitUrl' = Set(imagekitUrl, p, url)
    /\ cacheManifest' = Set(cacheManifest, cargs[p].id,
                            [filename |-> cargs[p].filename, imagekitUrl |-> url,
                             hash |-> cargs[p].hash, cachedAt |-> now])
    /\ snapshot' = Set(snapshot, p, Stringify(cacheManifest'))
    /\ cpc' = Set(cpc, p, "s_open")

\* lines 153-155: pathExists, then writeFile when the file is missing and there
\* is a buffer; a writeFile error reaches the outer catch
SaveFile(p, o) ==
    /\ cpc[p] = "s_file"
    /\ IF cargs[p].filename \notin localFiles /\ cargs[p].imageBuffer
       THEN o \in {"ok", "err"}
       ELSE o = "skip"
    /\ localFiles' = IF o = "ok" THEN localFiles \cup {cargs[p].filename}
                     ELSE localFiles
    /\ IF o = "err"
       THEN /\ saved' = Set(saved, p, [returned |-> TRUE, success |-> FALSE,
                                       imagekitUrl |-> NoUrl, localUrl |-> NoUrl])
            /\ cpc' = Set(cpc, p, "putdone")
            /\ UNCHANGED <<cacheManifest, imagekitUrl, snapshot>>
       ELSE IF cacheImagekit /\ cargs[p].imageBuffer
       THEN /\ cpc' = Set(cpc, p, "s_imagekit")
            /\ UNCHANGED <<cacheManifest, imagekitUrl, snapshot, saved>>
       ELSE /\ UpdateManifest(p, NoUrl)
            /\ UNCHANGED saved
    /\ UNCHANGED <<promptsLog, manifestFile, cloudFiles, cacheImagekit, now, cargs,
                   cacheEntry, found, writeFailed, regen>>

\* lines 159-181: imagekit.upload answers; its errors are logged only
SaveImagekit(p, o) ==
    /\ cpc[p] = "s_imagekit"
    /\ UpdateManifest(p, IF o = "url" THEN ImagekitUrl(cargs[p].filename) ELSE NoUrl)
    /\ UNCHANGED <<promptsLog, manifestFile, localFiles, cloudFiles, cacheImagekit,
                   now, cargs, cacheEntry, saved, found, writeFailed, regen>>

\* what the caller of saveManifest does when saveManifest has resolved:
\* saveToCache records the prompt (lines 197-206), getFromCache returns null
AfterSaveManifest(p) ==
    IF cpc[p] \in {"s_open", "s_write"}
    THEN /\ promptsLog' = IF cargs[p].prompt
                          THEN Set(promptsLog, cargs[p].id, cargs[p].hash)
                          ELSE promptsLog
         /\ cpc' = Set(cpc, p, "s_cloud")
         /\ found' = found
    ELSE /\ promptsLog' = promptsLog
         /\ cpc' = Set(cpc, p, "done")
         /\ found' = Set(found, p, Miss)

\* the text is a local of fs.writeJson: it is gone when the call is over
Written(p) == Set(snapshot, p, <<>>)

\* fs.writeJson opens the manifest file for writing, which truncates it; an
\* error is caught and logged by saveManifest (lines 283-285)
ManifestOpen(p, o) ==
    /\ cpc[p] \in {"s_open", "g_open"}
    /\ IF o = "ok"
       THEN /\ manifestFile' = <<>>
            /\ cpc' = Set(cpc, p, IF cpc[p] = "s_open" THEN "s_write" ELSE "g_write")
            /\ UNCHANGED <<promptsLog, found, writeFailed>>
            /\ snapshot' = snapshot
       ELSE /\ manifestFile' = manifestFile
            /\ writeFailed' = MarkFailed(p, IF cpc[p] = "s_open" THEN "put" ELSE "get")
            /\ snapshot' = Written(p)
            /\ AfterSaveManifest(p)
    /\ UNCHANGED <<cacheManifest, localFiles, cloudFiles, cacheImagekit, now, cargs,
                   imagekitUrl, cacheEntry, saved, regen>>

\* fs.writeJson writes its text at the start of the file it opened
ManifestWrite(p, o) ==
    /\ cpc[p] \in {"s_write", "g_write"}
    /\ IF o = "ok"
       THEN /\ manifestFile' = WriteAtStart(manifestFile, snapshot[p])
            /\ writeFailed' = writeFailed
       ELSE /\ manifestFile' = manifestFile
            /\ writeFailed' = MarkFailed(p, IF cpc[p] = "s_write" THEN "put" ELSE "get")
    /\ snapshot' = Written(p)
    /\ AfterSaveManifest(p)
    /\ UNCHANGED <<cacheManifest, localFiles, cloudFiles, cacheImagekit, now, cargs,
                   imagekitUrl, cacheEntry, saved, regen>>

\* lines 209-261: bucket.upload of the local file, errors logged only, then the
\* return of success
SaveCloud(p, o) ==
    /\ cpc[p] = "s_cloud"
    /\ o = "ok" => cargs[p].filename \in localFiles
    /\ cloudFiles' = IF o = "ok" THEN cloudFiles \cup {cargs[p].filename}
                     ELSE cloudFiles
    /\ saved' = Set(saved, p, [returned |-> TRUE, success |-> TRUE,
                               imagekitUrl |-> imagekitUrl[p],
                               localUrl |-> LocalUrl(cargs[p].filename)])
    /\ cpc' = Set(cpc, p, "putdone")
    /\ UNCHANGED <<cacheManifest, promptsLog, manifestFile, localFiles,
                   cacheImagekit, now, cargs, imagekitUrl, cacheEntry, snapshot,
                   found, writeFailed, regen>>

\* lines 75-88: getFromCache for the id just saved, up to its first await
GetFromCache(p) ==
    /\ cpc[p] = "putdone"
    /\ cacheEntry' = Set(cacheEntry, p, cacheManifest[cargs[p].id])
    /\ IF cacheManifest[cargs[p].id] = NoEntry
       THEN /\ found' = Set(found, p, Miss)
            /\ cpc' = Set(cpc, p, "done")
       ELSE IF cacheManifest[cargs[p].id].imagekitUrl # NoUrl
       THEN /\ found' = Set(found, p, Hit(cacheManifest[cargs[p].id].imagekitUrl,
                                          cacheManifest[cargs[p].id]))
            /\ cpc' = Set(cpc, p, "done")
       ELSE /\ found' = found
            /\ cpc' = Set(cpc, p, "g_local")
    /\ UNCHANGED <<cacheManifest, promptsLog, manifestFile, localFiles, cloudFiles,
                   cacheImagekit, now, cargs, imagekitUrl, snapshot, saved,
                   writeFailed, regen>>

\* a lookup that takes every file for missing from the local directory
GetLocalNeverFound(p) ==
    /\ cpc[p] = "g_local"
    /\ found' = found
    /\ cpc' = Set(cpc, p, "g_cloud")
    /\ UNCHANGED <<cacheManifest, promptsLog, manifestFile, localFiles, cloudFiles,
                   cacheImagekit, now, cargs, imagekitUrl, cacheEntry, snapshot,
                   saved, writeFailed, regen>>

\* lines 91-98: pathExists of the entry's file
GetLocal(p) ==
    /\ cpc[p] = "g_local"
    /\ IF cacheEntry[p].filename \in localFiles
       THEN /\ found' = Set(found, p, Hit(LocalUrl(cacheEntry[p].filename),
                                          cacheEntry[p]))
            /\ cpc' = Set(cpc, p, "done")
       ELSE /\ found' = found
            /\ cpc' = Set(cpc, p, "g_cloud")
    /\ UNCHANGED <<cacheManifest, promptsLog, manifestFile, localFiles, cloudFiles,
                   cacheImagekit, now, cargs, imagekitUrl, cacheEntry, snapshot,
                   saved, writeFailed, regen>>

\* lines 100-125: the bucket is asked for the file.  Found: it is downloaded
\* and returned.  Absent or error: the entry is deleted and saveManifest called.
GetCloud(p, o) ==
    /\ cpc[p] = "g_cloud"
    /\ o = "found" => cacheEntry[p].filename \in cloudFiles
    /\ o = "absent" => cacheEntry[p].filename \notin cloudFiles
    /\ IF o = "found"
       THEN /\ localFiles' = localFiles \cup {cacheEntry[p].filename}
            /\ found' = Set(found, p, Hit(LocalUrl(cacheEntry[p].filename),
                                          cacheEntry[p]))
            /\ cpc' = Set(cpc, p, "done")
            /\ UNCHANGED <<cacheManifest, snapshot>>
       ELSE /\ cacheManifest' = Set(cacheManifest, cargs[p].id, NoEntry)
            /\ snapshot' = Set(snapshot, p, Stringify(cacheManifest'))
            /\ cpc' = Set(cpc, p, "g_open")
            /\ UNCHANGED <<localFiles, found>>
    /\ UNCHANGED <<promptsLog, manifestFile, cloudFiles, cacheImagekit, now, cargs,
                   imagekitUrl, cacheEntry, saved, writeFailed, regen>>

\* shouldRegenerateImage is asked about an entry of the manifest
CheckRegenerate(appraiserId, newHash) ==
    /\ regen = NoRegen
    /\ regen' = [id |-> appraiserId, newHash |-> newHash,
                 result |-> ShouldRegenerateImage(appraiserId, newHash)]
    /\ UNCHANGED <<cacheManifest, promptsLog, manifestFile, localFiles, cloudFiles,
                   cacheImagekit, now, cpc, cargs, imagekitUrl, cacheEntry,
                   snapshot, saved, found, writeFailed>>

----------------------------------------------------------------------------
(* Specifications *)

Today == [m |-> 18, d |-> 15]

\* the cache store before any call: nothing cached, no manifest file
CacheIdle ==
    /\ promptsLog = [i \in Ids |-> "none"]
    /\ manifestFile = IF cacheManifest = EmptyManifest THEN <<>>
                      ELSE Stringify(cacheManifest)
    /\ cpc = [p \in Procs |-> "idle"]
    /\ cargs = [p \in Procs |-> NoArgs]
    /\ imagekitUrl = [p \in Procs |-> NoUrl]
    /\ cacheEntry = [p \in Procs |-> NoEntry]
    /\ snapshot = [p \in Procs |-> <<>>]
    /\ saved = [p \in Procs |-> NoSaved]
    /\ found = [p \in Procs |-> NoFound]
    /\ writeFailed = [p \in Procs |-> "none"]
    /\ regen = NoRegen

CacheOff ==
    /\ cacheManifest = EmptyManifest
    /\ CacheIdle
    /\ localFiles = {}
    /\ cloudFiles = {}
    /\ cacheImagekit = FALSE
    /\ now = Today

(* generateAppraiserDataHash *)

Undefined == "undefined"

FirstNames == {"Ann", "Bea"}

\* appraiser objects of a request body: an id, a name, and the other members
\* either present or absent
Appraisers ==
    { [id |-> i, firstName |-> f, lastName |-> "Lee", specialty |-> s,
       experience |-> Undefined, credentials |-> Undefined,
       education |-> Undefined] :
         i \in Ids, f \in FirstNames, s \in Specialties \cup {Undefined} }

\* the members of relevantData, in the order of the object literal
relevantData(appraiser) ==
    << <<"id", appraiser.id>>,
       <<"firstName", appraiser.firstName>>,
       <<"lastName", appraiser.lastName>>,
       <<"specialty", appraiser.specialty>>,
       <<"experience", appraiser.experience>>,
       <<"credentials", appraiser.credentials>>,
       <<"education", appraiser.education>> >>

Defined(member) == member[2] # Undefined

\* JSON.stringify of an object: its members in order, the undefined ones left out
JSONStringify(data) == SelectSeq(data, Defined)

\* md5 of a text: equal texts have equal digests, and the few short texts
\* hashed here have different ones
md5(text) == [digest |-> text]

NoHash == [digest |-> <<>>]

generateAppraiserDataHash(appraiser) == md5(JSONStringify(relevantData(appraiser)))

\* generateImage computes the hash of the request's appraiser before anything
\* else.
HashRequest(i) ==
    /\ dataHash[i] = NoHash
    /\ dataHash' = [dataHash EXCEPT ![i] =
                       generateAppraiserDataHash(appraiserPair[i])]
    /\ UNCHANGED appraiserPair

HashOff == appraiserPair = <<>> /\ dataHash = <<>>

----------------------------------------------------------------------------
(* specifications *)

NoThrown == [submit |-> <<>>, poll |-> <<>>]

NoAnswered == [submit |-> 0, poll |-> 0]

CatchOff == axiosError = NoResponse /\ thrown = NoThrown /\ answered = NoAnswered

BulkOff == appraisers = <<>> /\ results = <<>> /\ bulk = "idle" /\ bulkIndex = 0

CdnOff == mediaLibrary = {} /\ ticks = 0

NoPromptAnswer == [id |-> "none", status |-> 0, source |-> "none"]

PromptOff == promptFiles = {} /\ promptAnswer = NoPromptAnswer

EnsureOff ==
    /\ imagekitConfig = FALSE
    /\ ikInstance = 0
    /\ constructed = 0
    /\ epc = [p \in Procs |-> "idle"]
    /\ eclient = [p \in Procs |-> 0]
    /\ ecalls = [p \in Procs |-> 0]

BatchOff ==
    /\ scriptAppraisers = <<>>
    /\ batchSize = 1
    /\ scriptIndex = 0
    /\ scriptResults = <<>>
    /\ scriptPc = "off"

AuxOff ==
    /\ HashOff /\ CatchOff /\ cancelled = 0 /\ BulkOff /\ CdnOff /\ PromptOff
    /\ EnsureOff /\ BatchOff

GenInit ==
    /\ pc = "idle"
    /\ req = [id |-> NoId, specialty |-> "none", customPrompt |-> NoCustomPrompt]
    /\ nreq = 0
    /\ prev = NoPrev
    /\ prompt = "none"
    /\ bflApiKey \in BOOLEAN
    /\ attempts = 0
    /\ polls = 0
    /\ jobStatus = "none"
    /\ generatedImage = "none"
    /\ adapterErr = <<>>
    /\ cause = "none"
    /\ imageBuffer = "none"
    /\ imagekit = FALSE
    /\ uploadLog = <<>>
    /\ calls = NoCalls
    /\ result = NoResult
    /\ httpStatus = 0
    /\ isRemoteEnvironment \in BOOLEAN

Init == GenInit /\ CacheOff /\ AuxOff

Next ==
    \/ /\ \E id \in Ids \cup {NoId}, sp \in Specialties,
             cp \in {NoCustomPrompt, "custom"} : Receive(id, sp, cp)
       /\ UNCHANGED <<cacheVars, auxVars>>
    \/ /\ \E o \in GptOutcomes : BuildPrompt(o)
       /\ UNCHANGED <<cacheVars, auxVars>>
    \/ /\ \E k \in BOOLEAN, o \in SubmitOutcomes : Submit(k, o)
       /\ UNCHANGED <<cacheVars, auxVars>>
    \/ /\ \E o \in PollOutcomes : Poll(o)
       /\ UNCHANGED <<cacheVars, auxVars>>
    \/ /\ PollTimeout
       /\ UNCHANGED <<cacheVars, auxVars>>
    \/ /\ \E o \in {"bytes", "empty", "fail"} : Download(o)
       /\ UNCHANGED <<cacheVars, auxVars>>
    \/ /\ \E e \in BOOLEAN, c \in CdnOutcomes : UploadImage(e, c)
       /\ UNCHANGED <<cacheVars, auxVars>>
    \/ /\ \E e \in BOOLEAN, c \in CdnOutcomes : UploadImageFromBase64(e, c)
       /\ UNCHANGED <<cacheVars, auxVars>>
    \/ /\ \E c \in CdnOutcomes : UploadRecover(c)
       /\ UNCHANGED <<cacheVars, auxVars>>
    \/ /\ \E e \in BOOLEAN, c \in CdnOutcomes : UploadImageFromUrl(e, c)
       /\ UNCHANGED <<cacheVars, auxVars>>
    \/ /\ Respond
       /\ UNCHANGED <<cacheVars, auxVars>>

Spec == Init /\ [][Next]_vars

\* The steps the service takes on its own are taken sooner or later: leaving
\* the poll loop when the counter is used up, and answering.  Every other step
\* of a generation waits for the answer of a remote party (the prompt LLM, the
\* secret manager, the provider, the CDN), and no timer of the code stands in
\* for an answer that does not come: axios.post, axios.get, fetch, https.get
\* and the ImageKit upload are called without a timeout.
SpecUnanswered ==
    /\ Init
    /\ [][Next]_vars
    /\ WF_vars(PollTimeout /\ UNCHANGED <<cacheVars, auxVars>>)
    /\ WF_vars(Respond /\ UNCHANGED <<cacheVars, auxVars>>)

\* The client of the request in progress closes its connection or gives up
\* waiting.  The handler of POST /api/generate registers no listener for it
\* and hands no abort signal to generateImage, so no step of the service
\* reads it.
ClientGone ==
    /\ pc \notin {"idle", "done"}
    /\ cancelled # nreq
    /\ cancelled' = nreq
    /\ UNCHANGED <<genVars, cacheVars, hashVars, catchVars, bulkVars, cdnVars, promptVars, ensureVars, batchVars>>

NextCancel ==
    \/ Next
    \/ ClientGone

SpecCancel == Init /\ [][NextCancel]_vars

(* the file names of the uploads to ImageKit *)

MaxUploads == 5

\* generateImage: `appraiser_${appraiser.id}_${Date.now()}.jpg`
FileNameOf(id, stamp) == <<"appraiser", id, stamp>>

\* the name ImageKit stores a file under: with useUniqueFileName the name is
\* given a suffix no other file has, without it the name is kept and a file
\* of that name is overwritten
StoredName(fileName, useUniqueFileName, fresh) ==
    IF useUniqueFileName THEN Append(fileName, fresh) ELSE fileName

\* the url ImageKit answers with, and path.basename of it
UrlOf(stored) == <<"ik", "appraiser-images">> \o stored

Basename(url) == SubSeq(url, 3, Len(url))

\* generateImage uploads the image it generated for the appraiser: the name
\* carries the time, and uploadImage, uploadImageFromBase64 and
\* uploadImageFromUrl all set useUniqueFileName: true.
GenerateUpload(id) ==
    /\ ticks < MaxUploads
    /\ ticks' = ticks + 1
    /\ mediaLibrary' = mediaLibrary \cup {StoredName(FileNameOf(id, ticks'), TRUE, ticks')}

\* saveToCache(appraiserId, imageUrl, imageBuffer, ...) uploads under
\* path.basename(imageUrl) with useUniqueFileName: false; its caller passes
\* the imageUrl of generateImage's result.
SaveToCacheUpload(id, stored) ==
    /\ ticks < MaxUploads
    /\ stored \in mediaLibrary
    /\ stored[2] = id
    /\ ticks' = ticks + 1
    /\ mediaLibrary' = mediaLibrary \cup {StoredName(Basename(UrlOf(stored)), FALSE, ticks')}

(* POST /api/generate-bulk *)

MaxBulk == 2

\* an element of the list that is null
NullAppraiser == "null"

\* the lists a request body can carry: appraiser objects, given by their id,
\* and null elements; the empty list stands for every body the handler rejects
BulkBodies ==
    UNION { [1..n -> Ids \cup {NullAppraiser}] : n \in 0..MaxBulk }

\* a handler that starts the job and leaves the answer for later
ReceiveBulkAnswerLater(body) ==
    /\ bulk = "idle"
    /\ appraisers' = body
    /\ results' = <<>>
    /\ bulkIndex' = 1
    /\ IF Len(body) = 0
       THEN httpStatus' = 400 /\ bulk' = "rejected"
       ELSE httpStatus' = 0 /\ bulk' = "accepted"
    /\ UNCHANGED <<pc, req, nreq, prev, prompt, bflApiKey, attempts, polls,
                   jobStatus, generatedImage, adapterErr, imageBuffer,
                   imagekit, uploadLog, calls, result, isRemoteEnvironment,
                   cause>>

\* The handler: a body without a non-empty array is answered 400; otherwise
\* 202 is answered and the background job is started.
ReceiveBulk(body) ==
    /\ bulk = "idle"
    /\ appraisers' = body
    /\ results' = <<>>
    /\ bulkIndex' = 1
    /\ IF Len(body) = 0
       THEN httpStatus' = 400 /\ bulk' = "rejected"
       ELSE httpStatus' = 202 /\ bulk' = "accepted"
    /\ UNCHANGED <<pc, req, nreq, prev, prompt, bflApiKey, attempts, polls,
                   jobStatus, generatedImage, adapterErr, imageBuffer,
                   imagekit, uploadLog, calls, result, isRemoteEnvironment,
                   cause>>

\* The for loop takes the next appraiser and calls generateImage(appraiser),
\* or ends and logs the results.  For a null element the template literal
\* with appraiser.id throws in the try and again in the catch, which ends the
\* loop; the rejection is logged by the job's own catch.
BulkNext ==
    /\ bulk \in {"accepted", "running"}
    /\ pc \in {"idle", "done"}
    /\ IF bulkIndex > Len(appraisers)
       THEN /\ bulk' = "completed"
            /\ UNCHANGED <<pc, req, prompt, attempts, polls, jobStatus,
                           generatedImage, adapterErr, cause, imageBuffer,
                           uploadLog, calls, result>>
       ELSE IF appraisers[bulkIndex] = NullAppraiser
       THEN /\ bulk' = "aborted"
            /\ UNCHANGED <<pc, req, prompt, attempts, polls, jobStatus,
                           generatedImage, adapterErr, cause, imageBuffer,
                           uploadLog, calls, result>>
       ELSE /\ bulk' = "running"
            /\ req' = [id |-> appraisers[bulkIndex], specialty |-> "modern",
                       customPrompt |-> NoCustomPrompt]
            /\ prompt' = "none"
            /\ attempts' = 0
            /\ polls' = 0
            /\ jobStatus' = "none"
            /\ generatedImage' = "none"
            /\ adapterErr' = <<>>
            /\ cause' = "none"
            /\ imageBuffer' = "none"
            /\ uploadLog' = <<>>
            /\ calls' = NoCalls
            /\ result' = NoResult
            /\ pc' = "prompt"
    /\ UNCHANGED <<appraisers, results, bulkIndex, nreq, prev, bflApiKey,
                   imagekit, httpStatus, isRemoteEnvironment>>

\* a job that puts each new entry at the front of results
BulkCollectAtFront ==
    /\ bulk = "running"
    /\ pc = "respond"
    /\ results' = <<[id |-> req.id, success |-> result.kind # "error"]>>
                    \o results
    /\ bulkIndex' = bulkIndex + 1
    /\ pc' = "idle"
    /\ UNCHANGED <<appraisers, bulk, req, nreq, prev, prompt, bflApiKey,
                   attempts, polls, jobStatus, generatedImage, adapterErr,
                   imageBuffer, imagekit, uploadLog, calls, result, httpStatus,
                   isRemoteEnvironment, cause>>

\* generateImage has returned: one entry is pushed to results, with
\* success false when the result carries an error, and the loop goes on.
BulkCollect ==
    /\ bulk = "running"
    /\ pc = "respond"
    /\ results' = Append(results, [id |-> req.id,
                                   success |-> result.kind # "error"])
    /\ bulkIndex' = bulkIndex + 1
    /\ pc' = "idle"
    /\ UNCHANGED <<appraisers, bulk, req, nreq, prev, prompt, bflApiKey,
                   attempts, polls, jobStatus, generatedImage, adapterErr,
                   imageBuffer, imagekit, uploadLog, calls, result, httpStatus,
                   isRemoteEnvironment, cause>>

\* The client of the bulk request goes away after the answer; nothing in the
\* job refers to the request or the response.
BulkClientGone ==
    /\ bulk \in {"accepted", "running"}
    /\ cancelled = 0
    /\ cancelled' = 1
    /\ UNCHANGED <<genVars, cacheVars, hashVars, catchVars, bulkVars, cdnVars, promptVars, ensureVars, batchVars>>

InitBulk ==
    /\ GenInit
    /\ CacheOff
    /\ AuxOff

NextBulk ==
    \/ /\ \E body \in BulkBodies : ReceiveBulk(body)
       /\ UNCHANGED <<cacheVars, hashVars, catchVars, cancelled, cdnVars, promptVars, ensureVars, batchVars>>
    \/ /\ BulkNext
       /\ UNCHANGED <<cacheVars, hashVars, catchVars, cancelled, cdnVars, promptVars, ensureVars, batchVars>>
    \/ /\ \E o \in GptOutcomes : BuildPrompt(o)
       /\ UNCHANGED <<cacheVars, auxVars>>
    \/ /\ \E k \in BOOLEAN, o \in SubmitOutcomes : Submit(k, o)
       /\ UNCHANGED <<cacheVars, auxVars>>
    \/ /\ \E o \in PollOutcomes : Poll(o)
       /\ UNCHANGED <<cacheVars, auxVars>>
    \/ /\ PollTimeout
       /\ UNCHANGED <<cacheVars, auxVars>>
    \/ /\ \E o \in {"bytes", "empty", "fail"} : Download(o)
       /\ UNCHANGED <<cacheVars, auxVars>>
    \/ /\ \E e \in BOOLEAN, c \in CdnOutcomes : UploadImage(e, c)
       /\ UNCHANGED <<cacheVars, auxVars>>
    \/ /\ \E e \in BOOLEAN, c \in CdnOutcomes : UploadImageFromBase64(e, c)
       /\ UNCHANGED <<cacheVars, auxVars>>
    \/ /\ \E c \in CdnOutcomes : UploadRecover(c)
       /\ UNCHANGED <<cacheVars, auxVars>>
    \/ /\ \E e \in BOOLEAN, c \in CdnOutcomes : UploadImageFromUrl(e, c)
       /\ UNCHANGED <<cacheVars, auxVars>>
    \/ /\ BulkCollect
       /\ UNCHANGED <<cacheVars, hashVars, catchVars, cancelled, cdnVars, promptVars, ensureVars, batchVars>>
    \/ BulkClientGone

SpecBulk == InitBulk /\ [][NextBulk]_vars

\* Both endpoints: the appraiser flow of Spec and the location flow.
NextEntity ==
    \/ Next
    \/ /\ \E id \in LocationIds \cup {NoId}, cp \in {NoCustomPrompt, "custom"} :
              ReceiveLocation(id, cp)
       /\ UNCHANGED <<cacheVars, auxVars>>
    \/ /\ \E o \in {"ok", "err"} : LocationPrompt(o)
       /\ UNCHANGED <<cacheVars, auxVars>>
    \/ /\ \E o \in {"bytes", "empty", "fail", "writeerr"} : LocationDownload(o)
       /\ UNCHANGED <<cacheVars, auxVars>>
    \/ /\ \E e \in BOOLEAN, c \in CdnOutcomes : LocationUpload(e, c)
       /\ UNCHANGED <<cacheVars, auxVars>>
    \/ /\ LocationRespond
       /\ UNCHANGED <<cacheVars, auxVars>>

SpecEntity == Init /\ [][NextEntity]_vars

\* the generation flow at rest, while the cache store is exercised
GenOff ==
    /\ pc = "idle"
    /\ req = [id |-> NoId, specialty |-> "none", customPrompt |-> NoCustomPrompt]
    /\ nreq = 0
    /\ prev = NoPrev
    /\ prompt = "none"
    /\ bflApiKey = FALSE
    /\ attempts = 0
    /\ polls = 0
    /\ jobStatus = "none"
    /\ generatedImage = "none"
    /\ adapterErr = <<>>
    /\ cause = "none"
    /\ imageBuffer = "none"
    /\ imagekit = FALSE
    /\ uploadLog = <<>>
    /\ calls = NoCalls
    /\ result = NoResult
    /\ httpStatus = 0
    /\ isRemoteEnvironment = FALSE

\* one caller saves an image and then looks its appraiser up, whatever the
\* local artifact directory and the bucket hold
InitCache ==
    /\ GenOff
    /\ AuxOff
    /\ cacheManifest = EmptyManifest
    /\ CacheIdle
    /\ localFiles \in SUBSET Files
    /\ cloudFiles \in SUBSET Files
    /\ cacheImagekit \in BOOLEAN
    /\ now = Today

\* the steps of the calls in progress
CacheStep ==
    \/ /\ \E p \in Procs, o \in {"ok", "err", "skip"} : SaveFile(p, o)
       /\ UNCHANGED <<genVars, auxVars>>
    \/ /\ \E p \in Procs, o \in {"url", "nourl", "err"} : SaveImagekit(p, o)
       /\ UNCHANGED <<genVars, auxVars>>
    \/ /\ \E p \in Procs, o \in {"ok", "err"} : ManifestOpen(p, o)
       /\ UNCHANGED <<genVars, auxVars>>
    \/ /\ \E p \in Procs, o \in {"ok", "err"} : ManifestWrite(p, o)
       /\ UNCHANGED <<genVars, auxVars>>
    \/ /\ \E p \in Procs, o \in {"ok", "err"} : SaveCloud(p, o)
       /\ UNCHANGED <<genVars, auxVars>>
    \/ /\ \E p \in Procs : GetFromCache(p)
       /\ UNCHANGED <<genVars, auxVars>>
    \/ /\ \E p \in Procs : GetLocal(p)
       /\ UNCHANGED <<genVars, auxVars>>
    \/ /\ \E p \in Procs, o \in {"found", "absent", "err"} : GetCloud(p, o)
       /\ UNCHANGED <<genVars, auxVars>>

NextCache ==
    \/ /\ \E i \in Ids, f \in Files, b \in BOOLEAN, h \in Hashes, w \in BOOLEAN :
             SaveToCache("p1", i, f, b, h, w)
       /\ UNCHANGED <<genVars, auxVars>>
    \/ CacheStep

SpecCache == InitCache /\ [][NextCache]_vars

\* the file name the generator gives the image of an appraiser
FileName(id) == IF id = "a1" THEN "x.jpg" ELSE "y.jpg"

\* two callers use the cache store of one process at the same time, starting
\* from an empty cache
InitConc ==
    /\ GenOff
    /\ AuxOff
    /\ cacheManifest = EmptyManifest
    /\ CacheIdle
    /\ localFiles = {}
    /\ cloudFiles = {}
    /\ cacheImagekit \in BOOLEAN
    /\ now = Today

NextConc ==
    \/ /\ \E p \in Procs, i \in Ids, b \in BOOLEAN :
             SaveToCache(p, i, FileName(i), b, "h1", TRUE)
       /\ UNCHANGED <<genVars, auxVars>>
    \/ CacheStep

SpecConc == InitConc /\ [][NextConc]_vars

\* the caller's last call has returned and it makes its next one
CallAgain(p) ==
    /\ cpc[p] = "done"
    /\ cpc' = Set(cpc, p, "idle")
    /\ cargs' = Set(cargs, p, NoArgs)
    /\ imagekitUrl' = Set(imagekitUrl, p, NoUrl)
    /\ cacheEntry' = Set(cacheEntry, p, NoEntry)
    /\ saved' = Set(saved, p, NoSaved)
    /\ found' = Set(found, p, NoFound)
    /\ writeFailed' = Set(writeFailed, p, "none")
    /\ UNCHANGED <<cacheManifest, promptsLog, manifestFile, localFiles, cloudFiles,
                   cacheImagekit, now, snapshot, regen>>

\* an empty cache with ImageKit configured
InitSeq ==
    /\ InitConc
    /\ cacheImagekit

\* one caller makes saveToCache and getFromCache calls one after the other
NextSeq ==
    \/ /\ \E i \in Ids, b \in BOOLEAN, h \in Hashes, w \in BOOLEAN :
             SaveToCache("p1", i, FileName(i), b, h, w)
       /\ UNCHANGED <<genVars, auxVars>>
    \/ CacheStep
    \/ /\ CallAgain("p1")
       /\ UNCHANGED <<genVars, auxVars>>

SpecSeq == InitSeq /\ [][NextSeq]_vars

\* the fingerprint each caller passes in metadata.appraiserDataHash
PutHash(p) == IF p = "p1" THEN "h1" ELSE "h2"

\* two callers save an image for the same appraiser at the same time, each with
\* its own fingerprint
NextSameId ==
    \/ /\ \E p \in Procs, b \in BOOLEAN :
             SaveToCache(p, "a1", FileName("a1"), b, PutHash(p), TRUE)
       /\ UNCHANGED <<genVars, auxVars>>
    \/ CacheStep

SpecSameId == InitConc /\ [][NextSameId]_vars

FirstCachedMonth == 10

LastCachedMonth == 14

FirstNowMonth == 16

LastNowMonth == 20

DatesOf(first, last) ==
    {date \in [m : first..last, d : 1..31] : date.d <= DaysIn(date.m)}

\* a manifest loaded at start-up holds an entry cached on some earlier day;
\* shouldRegenerateImage is asked about it on some later day
InitFresh ==
    /\ GenOff
    /\ AuxOff
    /\ \E h \in Hashes, c \in DatesOf(FirstCachedMonth, LastCachedMonth) :
          cacheManifest = [EmptyManifest EXCEPT !["a1"] =
                             [filename |-> "x.jpg", imagekitUrl |-> NoUrl,
                              hash |-> h, cachedAt |-> c]]
    /\ CacheIdle
    /\ localFiles = {"x.jpg"}
    /\ cloudFiles = {}
    /\ cacheImagekit = FALSE
    /\ now \in DatesOf(FirstNowMonth, LastNowMonth)

NextFresh ==
    /\ \E i \in Ids, h \in Hashes : CheckRegenerate(i, h)
    /\ UNCHANGED <<genVars, auxVars>>

SpecFresh == InitFresh /\ [][NextFresh]_vars

\* generateAppraiserDataHash applied to two appraiser objects
InitHash ==
    /\ GenOff
    /\ CacheOff
    /\ CatchOff
    /\ cancelled = 0
    /\ BulkOff
    /\ CdnOff
    /\ PromptOff
    /\ EnsureOff
    /\ BatchOff
    /\ appraiserPair \in Appraisers \X Appraisers
    /\ dataHash = <<NoHash, NoHash>>

NextHash ==
    /\ \E i \in {1, 2} : HashRequest(i)
    /\ UNCHANGED <<genVars, cacheVars, catchVars, cancelled, bulkVars, cdnVars, promptVars, ensureVars, batchVars>>

SpecHash == InitHash /\ [][NextHash]_vars

\* The catch of the submit call and the catch of a poll call handed the same
\* axios error, and what POST /api/generate answers for what each throws.
SubmitCatch ==
    /\ thrown.submit = <<>>
    /\ thrown' = [thrown EXCEPT !.submit = SubmitError(axiosError)]
    /\ UNCHANGED <<axiosError, answered>>

PollCatch ==
    /\ thrown.poll = <<>>
    /\ thrown' = [thrown EXCEPT !.poll = PollError(axiosError)]
    /\ UNCHANGED <<axiosError, answered>>

\* generateImage's inner catch wraps the message and the handler answers
Answer(call) ==
    /\ thrown[call] # <<>>
    /\ answered[call] = 0
    /\ answered' = [answered EXCEPT ![call] = StatusFor(ErrorResult(thrown[call]))]
    /\ UNCHANGED <<axiosError, thrown>>

InitCatch ==
    /\ GenOff
    /\ CacheOff
    /\ HashOff
    /\ cancelled = 0
    /\ BulkOff
    /\ CdnOff
    /\ PromptOff
    /\ EnsureOff
    /\ BatchOff
    /\ axiosError \in HttpErrors
    /\ thrown = NoThrown
    /\ answered = NoAnswered

NextCatch ==
    \/ /\ SubmitCatch
       /\ UNCHANGED <<genVars, cacheVars, hashVars, cancelled, bulkVars, cdnVars, promptVars, ensureVars, batchVars>>
    \/ /\ PollCatch
       /\ UNCHANGED <<genVars, cacheVars, hashVars, cancelled, bulkVars, cdnVars, promptVars, ensureVars, batchVars>>
    \/ /\ \E call \in {"submit", "poll"} : Answer(call)
       /\ UNCHANGED <<genVars, cacheVars, hashVars, cancelled, bulkVars, cdnVars, promptVars, ensureVars, batchVars>>

SpecCatch == InitCatch /\ [][NextCatch]_vars

\* uploads of generateImage and of saveToCache, in any order
InitCdn ==
    /\ GenOff
    /\ CacheOff
    /\ HashOff
    /\ CatchOff
    /\ cancelled = 0
    /\ BulkOff
    /\ CdnOff
    /\ PromptOff
    /\ EnsureOff
    /\ BatchOff

NextCdn ==
    \/ /\ \E id \in Ids : GenerateUpload(id)
       /\ UNCHANGED <<genVars, cacheVars, hashVars, catchVars, cancelled, bulkVars, promptVars, ensureVars, batchVars>>
    \/ /\ \E id \in Ids : \E stored \in mediaLibrary : SaveToCacheUpload(id, stored)
       /\ UNCHANGED <<genVars, cacheVars, hashVars, catchVars, cancelled, bulkVars, promptVars, ensureVars, batchVars>>

SpecCdn == InitCdn /\ [][NextCdn]_vars

\* GET /api/prompt/:appraiserId, received while no generation is in progress:
\* the prompt file of the appraiser is read when it exists, and 404 is answered
\* otherwise
GetPrompt(id) ==
    /\ pc \in {"idle", "done"}
    /\ promptAnswer' = IF id \in promptFiles
                       THEN [id |-> id, status |-> 200, source |-> "file"]
                       ELSE [id |-> id, status |-> 404, source |-> "none"]
    /\ UNCHANGED promptFiles

\* the service starts with the prompt files an earlier run of the batch script
\* has left under data/prompts, if any
InitPrompt ==
    /\ GenInit
    /\ CacheOff
    /\ HashOff
    /\ CatchOff
    /\ cancelled = 0
    /\ BulkOff
    /\ mediaLibrary = {}
    /\ ticks = 0
    /\ promptFiles \in SUBSET Ids
    /\ promptAnswer = NoPromptAnswer
    /\ EnsureOff
    /\ BatchOff

\* POST /api/generate and GET /api/prompt/:appraiserId
NextPrompt ==
    \/ Next
    \/ /\ \E id \in Ids : GetPrompt(id)
       /\ UNCHANGED <<genVars, cacheVars, hashVars, catchVars, cancelled, bulkVars,
                      cdnVars, ensureVars, batchVars>>

SpecPrompt == InitPrompt /\ [][NextPrompt]_vars

----------------------------------------------------------------------------
(* imagekit-client.js: ensureImageKitClient under concurrent callers *)

MaxEnsureCalls == 2

\* imagekit = new ImageKit({...}); return imagekit
Construct(p) ==
    /\ constructed' = constructed + 1
    /\ ikInstance' = constructed + 1
    /\ imagekit' = TRUE
    /\ eclient' = Set(eclient, p, constructed + 1)
    /\ epc' = Set(epc, p, "done")

\* A caller enters ensureImageKitClient and runs to its first await or to its
\* return: the existing client is returned; with both keys set the client is
\* constructed at once; otherwise the caller waits for getSecret.
EnsureEnter(p) ==
    /\ epc[p] = "idle"
    /\ ecalls[p] < MaxEnsureCalls
    /\ ecalls' = Set(ecalls, p, ecalls[p] + 1)
    /\ IF ikInstance # 0
       THEN /\ eclient' = Set(eclient, p, ikInstance)
            /\ epc' = Set(epc, p, "done")
            /\ UNCHANGED <<constructed, ikInstance, imagekit>>
       ELSE IF imagekitConfig
       THEN Construct(p)
       ELSE /\ epc' = Set(epc, p, "secret")
            /\ UNCHANGED <<constructed, ikInstance, imagekit, eclient>>
    /\ UNCHANGED imagekitConfig

\* The caller resumes after its awaits of getSecret: without both keys it
\* throws, with them it constructs the client.
EnsureResume(p, secretFound) ==
    /\ epc[p] = "secret"
    /\ imagekitConfig' = (imagekitConfig \/ secretFound)
    /\ IF imagekitConfig'
       THEN Construct(p)
       ELSE /\ epc' = Set(epc, p, "threw")
            /\ UNCHANGED <<constructed, ikInstance, imagekit, eclient>>
    /\ UNCHANGED ecalls

\* the module's start-up lookup of the keys in Secret Manager completes
StartupSecrets ==
    /\ ~imagekitConfig
    /\ imagekitConfig' = TRUE
    /\ UNCHANGED <<constructed, ikInstance, imagekit, eclient, epc, ecalls>>

\* the caller's upload function has ended; the caller may call again
EnsureLeave(p) ==
    /\ epc[p] \in {"done", "threw"}
    /\ epc' = Set(epc, p, "idle")
    /\ eclient' = Set(eclient, p, 0)
    /\ UNCHANGED <<constructed, ikInstance, imagekit, imagekitConfig, ecalls>>

\* the variables of the generation flow other than imagekit
genOther == <<pc, req, nreq, prev, prompt, bflApiKey, attempts, polls, jobStatus,
              generatedImage, adapterErr, imageBuffer, uploadLog, calls, result,
              httpStatus, isRemoteEnvironment, cause>>

\* the keys are in the environment or they are not
InitEnsure ==
    /\ GenInit
    /\ CacheOff
    /\ HashOff
    /\ CatchOff
    /\ cancelled = 0
    /\ BulkOff
    /\ CdnOff
    /\ PromptOff
    /\ imagekitConfig \in BOOLEAN
    /\ ikInstance = 0
    /\ constructed = 0
    /\ epc = [p \in Procs |-> "idle"]
    /\ eclient = [p \in Procs |-> 0]
    /\ ecalls = [p \in Procs |-> 0]
    /\ BatchOff

\* what ensureImageKitClient leaves alone
ensureFrame == <<genOther, cacheVars, hashVars, catchVars, cancelled, bulkVars,
                 cdnVars, promptVars, batchVars>>

NextEnsure ==
    \/ (\E p \in Procs : EnsureEnter(p)) /\ UNCHANGED ensureFrame
    \/ (\E p \in Procs, secretFound \in BOOLEAN : EnsureResume(p, secretFound))
           /\ UNCHANGED ensureFrame
    \/ StartupSecrets /\ UNCHANGED ensureFrame
    \/ (\E p \in Procs : EnsureLeave(p)) /\ UNCHANGED ensureFrame

SpecEnsure == InitEnsure /\ [][NextEnsure]_vars

----------------------------------------------------------------------------
(* The generate-bulk script: generateImages and processBatch *)

MaxList == 3

MaxBatchSize == 3

\* appraisers.slice(i, i + batchSize), i counted from 0
Slice(list, i, size) ==
    SubSeq(list, i + 1, IF i + size < Len(list) THEN i + size ELSE Len(list))

\* response.data of a request the service accepted: the body of its answer
\* 202, an object with message and jobId
Accepted202 == [array |-> FALSE, items |-> <<>>]

\* the return of processBatch's catch: one failure entry per appraiser
BatchFailed(batch) ==
    [array |-> TRUE,
     items |-> [k \in 1..Len(batch) |-> [appraiserId |-> batch[k], success |-> FALSE]]]

\* processBatch(batch): response.data when axios.post resolves, the failure
\* entries when it rejects
ProcessBatch(batch, resolved) == IF resolved THEN Accepted202 ELSE BatchFailed(batch)

\* One iteration of generateImages' loop, or its return.  results.push(...x)
\* iterates x, which throws a TypeError for an object that is not iterable.
GenerateImagesStep(resolved) ==
    /\ scriptPc = "loop"
    /\ IF scriptIndex < Len(scriptAppraisers)
       THEN LET batch == Slice(scriptAppraisers, scriptIndex, batchSize)
                batchResults == ProcessBatch(batch, resolved)
            IN  IF batchResults.array
                THEN /\ scriptResults' = scriptResults \o batchResults.items
                     /\ scriptIndex' = scriptIndex + batchSize
                     /\ scriptPc' = "loop"
                ELSE /\ scriptPc' = "threw"
                     /\ UNCHANGED <<scriptResults, scriptIndex>>
       ELSE /\ resolved
            /\ scriptPc' = "returned"
            /\ UNCHANGED <<scriptResults, scriptIndex>>
    /\ UNCHANGED <<scriptAppraisers, batchSize>>

\* generateImages(appraisers, batchSize) is called with a list and a batch
\* size of at least 1
InitBatch ==
    /\ GenInit
    /\ CacheOff
    /\ HashOff
    /\ CatchOff
    /\ cancelled = 0
    /\ BulkOff
    /\ CdnOff
    /\ PromptOff
    /\ EnsureOff
    /\ scriptAppraisers \in UNION { [1..n -> Ids] : n \in 0..MaxList }
    /\ batchSize \in 1..MaxBatchSize
    /\ scriptIndex = 0
    /\ scriptResults = <<>>
    /\ scriptPc = "loop"

NextBatch ==
    /\ \E resolved \in BOOLEAN : GenerateImagesStep(resolved)
    /\ UNCHANGED <<genVars, cacheVars, hashVars, catchVars, cancelled, bulkVars,
                   cdnVars, promptVars, ensureVars>>

SpecBatch == InitBatch /\ [][NextBatch]_vars

----------------------------------------------------------------------------
(* Properties of the generation flow *)

Returned == pc \in {"respond", "done"} /\ result.kind # "none"

Succeeded == Returned /\ result.kind \in {"success", "fallback"}

\* the request being answered repeats the attributes of the previous one,
\* which produced an image
SecondCallSameAttributes ==
    /\ pc = "done"
    /\ req.id # NoId
    /\ prev.ok
    /\ prev.id = req.id
    /\ prev.specialty = req.specialty

\* the adapter's own billing signals: status 402, a payment keyword in the
\* payload of a failed submit or in the error of a job
AdapterBillingBlocked == cause \in {"http402", "bodyPayment", "jobErrorPayment"}

\* network failure, poll-loop timeout, 5xx
AdapterTransient == cause \in {"network", "timeout", "http5xx"}

C2_BillingBlockedNoRetry ==
    (pc \in {"respond", "done"} /\ AdapterBillingBlocked) =>
        /\ result.kind = "error"
        /\ IsPaymentRequired(result.error)
        /\ calls.adapter = 1
        /\ calls.download = 0
        /\ calls.upload = 0
        /\ (pc = "done" => httpStatus = 402)

\* C3 as stated: when the adapter's first invocation fails with a transient
\* error, the generation is retried once: the adapter has been invoked exactly
\* twice when the call returns, and the call succeeds.
C3_TransientRetried ==
    (pc = "done" /\ AdapterTransient) =>
        /\ Succeeded
        /\ calls.adapter = 2

\* C3 amended: there is no retry.  When the adapter's first invocation fails
\* with a transient error the call returns the error result carrying the
\* adapter's message, and the adapter has been invoked exactly once.
C3_TransientNotRetried ==
    (pc \in {"respond", "done"} /\ AdapterTransient) =>
        /\ result = ErrorResult(adapterErr)
        /\ calls.adapter = 1

C3_Witness ==
    /\ pc = "done"
    /\ cause = "network"
    /\ result.kind = "error"
    /\ calls.adapter = 1
    /\ calls.submit = 1

----------------------------------------------------------------------------
(* Upload tiering *)

Fns(log) == [i \in 1..Len(log) |-> log[i].fn]

IsPrefix(a, b) == Len(a) <= Len(b) /\ a = SubSeq(b, 1, Len(a))

ThreeTiers == <<"uploadImage", "uploadImageFromBase64", "uploadImageFromUrl">>

UrlOfTier(fn) ==
    CASE fn = "uploadImage" -> "ik_buffer"
      [] fn = "uploadImageFromBase64" -> "ik_base64"
      [] fn = "uploadImageFromUrl" -> "ik_url"

\* every upload function but the last one entered has thrown
OnlyAfterFailure(log) == \A i \in 1..(Len(log) - 1) : ~log[i].ok

\* C4 as stated: the tiers are native buffer, base64, remote URL, tried in that
\* order, each only after the previous one failed; a result from the remote-URL
\* tier means all three were attempted.
C4_ThreeTiersInOrder ==
    /\ IsPrefix(Fns(uploadLog), ThreeTiers)
    /\ OnlyAfterFailure(uploadLog)
    /\ (Returned /\ result.imageUrl = "ik_url" => Fns(uploadLog) = ThreeTiers)

\* C4 amended: the environment selects the tiers.  Locally: native buffer, then
\* remote URL.  Remotely: base64 (whose own recovery may upload the decoded
\* buffer), then remote URL.  An upload function is entered only after the
\* previous one threw, and the result is that of the function that succeeded:
\* the remote-URL tier's when all earlier ones failed.
C4_TiersByEnvironment ==
    /\ IF isRemoteEnvironment
       THEN \/ IsPrefix(Fns(uploadLog),
                        <<"uploadImageFromBase64", "uploadImageFromUrl">>)
            \/ IsPrefix(Fns(uploadLog),
                        <<"uploadImageFromBase64", "uploadImage",
                          "uploadImageFromUrl">>)
       ELSE IsPrefix(Fns(uploadLog), <<"uploadImage", "uploadImageFromUrl">>)
    /\ OnlyAfterFailure(uploadLog)
    /\ (Returned /\ result.kind = "success" =>
            /\ uploadLog # <<>>
            /\ uploadLog[Len(uploadLog)].ok
            /\ result.imageUrl = UrlOfTier(uploadLog[Len(uploadLog)].fn))
    /\ (Returned /\ uploadLog # <<>> /\ uploadLog[Len(uploadLog)].ok =>
            result.kind = "success")

C4_Witness ==
    /\ pc = "done"
    /\ isRemoteEnvironment
    /\ Len(uploadLog) = 3
    /\ uploadLog[1].sent /\ uploadLog[2].sent
    /\ result.imageUrl = "ik_url"

----------------------------------------------------------------------------
(* The poll loop *)

PollStep == \E o \in PollOutcomes : Poll(o)

SubmitStep == \E k \in BOOLEAN, o \in SubmitOutcomes : Submit(k, o)

\* C5: each iteration of the poll loop increments the attempt count; a poll
\* request is sent only while fewer than 30 have been sent for the job; and
\* when 30 polls have left the job neither Ready nor Error the adapter fails
\* with the timeout error.
C5_PollCeiling ==
    /\ [](polls = attempts /\ polls <= maxAttempts)
    /\ [][PollStep => /\ polls < maxAttempts
                      /\ pc' = "poll" => attempts' = attempts + 1]_vars
    /\ [][pc = "poll" /\ polls = maxAttempts =>
            /\ jobStatus \in {"Submitted", "Pending"}
            /\ cause' = "timeout"
            /\ adapterErr' = MsgTimedOut
            /\ result'.kind = "error"]_vars

C5_Witness ==
    /\ pc = "done"
    /\ cause = "timeout"
    /\ adapterErr = MsgTimedOut
    /\ jobStatus = "Pending"

JobTransitions ==
    { <<"none", "Submitted">>, <<"Submitted", "Pending">>,
      <<"Submitted", "Ready">>, <<"Submitted", "Error">>,
      <<"Pending", "Ready">>, <<"Pending", "Error">> }

\* C6: a job only moves Submitted -> Pending -> {Ready | Error}.  Once a poll
\* has observed Ready or Error no further poll or submit request is made for the
\* job.  Error leaves the adapter with that error classified (billing or
\* generation error); Ready leaves it with the artifact URL of the answer, or
\* with an error when the answer carries none.
C6_JobStateMachine ==
    /\ [][jobStatus' # jobStatus =>
            \/ <<jobStatus, jobStatus'>> \in JobTransitions
            \/ jobStatus' = "none" /\ pc' \in {"prompt", "done"}]_vars
    /\ [][(jobStatus = "Ready" \/ jobStatus = "Error") =>
            ~(PollStep \/ SubmitStep)]_vars
    /\ [](jobStatus = "Error" =>
            /\ pc \in {"respond", "done"}
            /\ cause \in {"jobError", "jobErrorPayment"}
            /\ result = ErrorResult(adapterErr)
            /\ (cause = "jobErrorPayment" <=> IsPaymentRequired(adapterErr)))
    /\ [](jobStatus = "Ready" =>
            /\ pc \notin {"submit", "poll"}
            /\ IF cause = "nosample"
               THEN generatedImage = "none" /\ adapterErr = MsgNoImageUrl
               ELSE generatedImage = "bfl_sample" /\ adapterErr = <<>>)

----------------------------------------------------------------------------
(* Properties of the cache store *)

\* the URL of the entry saveToCache reported: the ImageKit URL when there is
\* one, the local URL otherwise
SavedUrl(p) ==
    IF saved[p].imagekitUrl # NoUrl THEN saved[p].imagekitUrl ELSE saved[p].localUrl

ReadsOwnWrite(p) ==
    /\ found[p].hit
    /\ found[p].hash = cargs[p].hash
    /\ found[p].imageUrl = SavedUrl(p)

\* C7: getFromCache called right after a successful saveToCache for the same
\* appraiser returns an entry with the fingerprint and the URL just saved,
\* whatever the entry and whatever the local artifact directory holds (stated
\* for the runs in which every write of the manifest file succeeded).
C7_ReadAfterWrite ==
    (saved["p1"].success /\ found["p1"].returned /\ writeFailed["p1"] = "none")
        => ReadsOwnWrite("p1")

Min(a, b) == IF a < b THEN a ELSE b

\* the same day of the month k months later, the last day of that month when
\* it is shorter
AddMonths(date, k) == [m |-> date.m + k, d |-> Min(date.d, DaysIn(date.m + k))]

\* more than the max age lies between the two dates
ExceedsMaxAge(created, date) == Before(AddMonths(created, MaxAgeMonths), date)

\* C8: an entry is not fresh when its fingerprint differs from the new one,
\* not fresh when more than six months have passed since it was cached, and
\* fresh in every other case.
C8_IsFresh ==
    (regen # NoRegen /\ cacheManifest[regen.id] # NoEntry) =>
        LET entry == cacheManifest[regen.id]
            isFresh == ~regen.result
        IN  /\ entry.hash # regen.newHash => ~isFresh
            /\ ExceedsMaxAge(entry.cachedAt, now) => ~isFresh
            /\ (entry.hash = regen.newHash /\ ~ExceedsMaxAge(entry.cachedAt, now))
                  => isFresh

\* both callers saved an image with its bytes, for different appraisers, and no
\* write of the manifest reported an error
BothSaved ==
    /\ cargs["p1"].id # cargs["p2"].id
    /\ \A p \in Procs :
          /\ saved[p].success
          /\ cargs[p].imageBuffer
          /\ writeFailed[p] = "none"

\* C9: after two concurrent saveToCache calls for different appraisers have
\* completed, the manifest file is well-formed and holds both entries, and
\* getFromCache returns to each caller its own entry.
C9_ConcurrentPuts ==
    BothSaved =>
        /\ WellFormed(manifestFile)
        /\ \A p \in Procs :
              /\ cacheManifest[cargs[p].id].hash = cargs[p].hash
              /\ ReadJson(manifestFile)[cargs[p].id] = cacheManifest[cargs[p].id]
              /\ found[p].returned => ReadsOwnWrite(p)

\* C10: when the write of the manifest file fails during saveToCache,
\* saveToCache does not return success.
C10_WriteFailureReported ==
    (saved["p1"].returned /\ writeFailed["p1"] = "put") => ~saved["p1"].success

\* a step of getFromCache
LookupStep ==
    \E p \in Procs :
        \/ GetFromCache(p)
        \/ GetLocal(p)
        \/ \E o \in {"found", "absent", "err"} : GetCloud(p, o)

\* a step of saveToCache that assigns the entry
PutStep ==
    \E p \in Procs :
        \/ \E o \in {"ok", "err", "skip"} : SaveFile(p, o)
        \/ \E o \in {"url", "nourl", "err"} : SaveImagekit(p, o)

\* the manifest lost the entry of id and nothing else changed in it
Removed(id) ==
    /\ cacheManifest[id] # NoEntry
    /\ cacheManifest' = [cacheManifest EXCEPT ![id] = NoEntry]

\* C11 as stated: no step of getFromCache changes the entries of the manifest.
C11_LookupPure == [][LookupStep => cacheManifest' = cacheManifest]_vars

\* C11 amended: a step of getFromCache leaves the manifest as it is, or removes
\* exactly the entry looked up, and that only when the entry has no ImageKit
\* URL and its file is not in the local artifact directory; every other change
\* of the manifest is the assignment of the caller's entry by saveToCache.
C11_LookupRemovesOnlyMissing ==
    /\ [][LookupStep =>
            \/ cacheManifest' = cacheManifest
            \/ \E p \in Procs :
                  /\ cpc[p] = "g_cloud"
                  /\ Removed(cargs[p].id)
                  /\ cacheEntry[p].imagekitUrl = NoUrl
                  /\ cacheEntry[p].filename \notin localFiles]_vars
    /\ [][cacheManifest' # cacheManifest =>
            \/ LookupStep
            \/ /\ PutStep
               /\ \E p \in Procs :
                     /\ cacheManifest'[cargs[p].id].hash = cargs[p].hash
                     /\ \A i \in Ids \ {cargs[p].id} :
                           cacheManifest'[i] = cacheManifest[i]]_vars

C11_Witness ==
    /\ cpc["p1"] = "done"
    /\ saved["p1"].success
    /\ found["p1"] = Miss
    /\ cacheManifest[cargs["p1"].id] = NoEntry
    /\ cargs["p1"].filename \notin localFiles

----------------------------------------------------------------------------

\* generateImage or generateLocationImage has handed its outcome to the handler
AtHandler == pc \in {"respond", "l_respond"} \/ (pc = "done" /\ httpStatus # 400)

\* a result object: an image url and no error, or an error text
Structured(r) ==
    \/ r.kind \in {"success", "fallback"} /\ r.imageUrl # "none" /\ r.error = <<>>
    \/ r.kind = "error" /\ r.error # <<>>

\* C12: generateImage and generateLocationImage never throw to their handler.
\* Whatever prompt building, the provider, the download, the file writes and
\* the upload do, the handler is handed a result object that carries either an
\* image url or a non-empty error text; and generation in progress always has
\* a next step, so it does reach the handler.
C12_NeverThrows ==
    /\ AtHandler => Structured(result)
    /\ pc \notin {"idle", "done"} => ENABLED <<NextEntity>>_vars

C12_Witness ==
    /\ pc = "l_respond"
    /\ cause = "download"
    /\ generatedImage # "none"
    /\ result.kind = "error"
    /\ result.source = "internal_error"

\* C13: a generation, for an appraiser or for a location, that failed with a
\* billing signal of the provider is answered with HTTP 402, and an answer of
\* 402 is given to no other failure.
C13_BillingAnswered402 ==
    pc = "done" =>
        /\ AdapterBillingBlocked => httpStatus = 402
        /\ httpStatus = 402 => AdapterBillingBlocked

\* every upload function that was entered for this request failed
AllUploadsFailed ==
    /\ uploadLog # <<>>
    /\ \A i \in 1..Len(uploadLog) : ~uploadLog[i].ok

\* C14: when the provider delivered an image url and every upload that was
\* tried failed, the handler is handed a result without error whose imageUrl
\* is the provider's url, and the request is answered 200.
C14_DegradedResult ==
    (AtHandler /\ generatedImage # "none" /\ AllUploadsFailed) =>
        /\ result.kind = "fallback"
        /\ result.error = <<>>
        /\ result.imageUrl = generatedImage
        /\ pc = "done" => httpStatus = 200

C14_Witness ==
    /\ pc = "done"
    /\ ~IsLocation
    /\ generatedImage = "bfl_sample"
    /\ Len(uploadLog) = 2
    /\ AllUploadsFailed
    /\ result.imageUrl = "bfl_sample"
    /\ httpStatus = 200

\* the attributes that decide what the image shows: everything the hash
\* covers except the appraiser's name
VisualAttributes(appraiser) ==
    JSONStringify(<< <<"id", appraiser.id>>,
                     <<"specialty", appraiser.specialty>>,
                     <<"experience", appraiser.experience>>,
                     <<"credentials", appraiser.credentials>>,
                     <<"education", appraiser.education>> >>)

BothHashed == dataHash # <<>> /\ dataHash[1] # NoHash /\ dataHash[2] # NoHash

\* C15: two requests with the same visual attributes have the same hash, even
\* when their names differ.
C15_SameAttributesSameHash ==
    (BothHashed /\ VisualAttributes(appraiserPair[1])
                       = VisualAttributes(appraiserPair[2]))
        => dataHash[1] = dataHash[2]

HasOverride == req.customPrompt # NoCustomPrompt

\* the prompt of the request in progress has been decided
PromptBuilt ==
    /\ pc \notin {"idle", "prompt", "l_prompt"}
    /\ ~(pc = "done" /\ httpStatus = 400)

C17_BuildPromptNeverFails ==
    [][\A o \in GptOutcomes \ {"ok"} :
          (~HasOverride /\ BuildPrompt(o)) =>
              (prompt' = "basic" /\ pc' = "submit")]_vars

\* the kind of a thrown error as the API boundary reads it
ErrorKind(msg) == IF IsPaymentRequired(msg) THEN "BillingBlocked" ELSE "Other"

C19_EventuallyReturns == (pc \notin {"idle", "done"}) ~> (pc = "done")

DownloadStep == \E o \in {"bytes", "empty", "fail"} : Download(o)

UploadStep ==
    \/ \E e \in BOOLEAN, c \in CdnOutcomes : UploadImage(e, c)
    \/ \E e \in BOOLEAN, c \in CdnOutcomes : UploadImageFromBase64(e, c)
    \/ \E c \in CdnOutcomes : UploadRecover(c)
    \/ \E e \in BOOLEAN, c \in CdnOutcomes : UploadImageFromUrl(e, c)

\* the client of the request in progress has gone away
Cancelled == nreq > 0 /\ cancelled = nreq

\* C20: once the client of the request in progress has gone away, the service
\* sends no further submit or poll for it, downloads nothing and uploads
\* nothing.
C20_AbortedOnCancel ==
    [][Cancelled => ~(SubmitStep \/ PollStep \/ DownloadStep \/ UploadStep)]_vars

\* a step of the background job: the loop, or a step of the generateImage
\* call it is waiting for
JobStep ==
    \/ /\ BulkNext \/ BulkCollect
       /\ UNCHANGED <<cacheVars, hashVars, catchVars, cancelled, cdnVars, promptVars, ensureVars, batchVars>>
    \/ /\ \/ \E o \in GptOutcomes : BuildPrompt(o)
          \/ SubmitStep
          \/ PollStep
          \/ PollTimeout
          \/ DownloadStep
          \/ UploadStep
       /\ UNCHANGED <<cacheVars, auxVars>>

JobStarted == bulk \in {"accepted", "running", "completed", "aborted"}

C22_EveryEntityOnce ==
    bulk \in {"completed", "aborted"} =>
        /\ Len(results) = Len(appraisers)
        /\ \A i \in 1..Len(results) : results[i].id = appraisers[i]

\* the files of the media library that belong to an appraiser
FilesOf(id) == {f \in mediaLibrary : f[2] = id}

\* C23: whatever uploads were made, the media library holds at most one file
\* for each appraiser.
C23_OneArtifactPerEntity == \A id \in Ids : Cardinality(FilesOf(id)) <= 1

\* the put of caller p returns with success in this step, after the put of the
\* other caller q has returned with success and before q looks anything up;
\* no write of the manifest file reported an error
CompletesLast(p, q) ==
    /\ cpc[p] = "s_cloud"
    /\ cpc'[p] = "putdone"
    /\ saved'[p].success
    /\ cpc[q] = "putdone"
    /\ saved[q].success
    /\ writeFailed[p] = "none"
    /\ writeFailed[q] = "none"

\* C24: when two concurrent saveToCache calls for the same appraiser have both
\* completed, the entry of the manifest is the one written by the call that
\* completed last.
C24_LastCompletedWins ==
    [][\A p, q \in Procs :
          (p # q /\ CompletesLast(p, q)) =>
              cacheManifest'["a1"].hash = cargs[p].hash]_vars

\* the number of entries the text of a manifest holds for an id
EntriesFor(text, id) ==
    Cardinality({k \in 1..Len(text) : text[k].t = "entry" /\ text[k].id = id})

\* the entry a completed saveToCache call of caller p has written
EntryOf(p) ==
    [filename |-> cargs[p].filename, imagekitUrl |-> imagekitUrl[p],
     hash |-> cargs[p].hash, cachedAt |-> now]

\* C25: after any sequence of saveToCache and getFromCache calls the manifest,
\* in memory and in its file, holds at most one entry per appraiser id, and a
\* completed saveToCache leaves its own entry under the id, whatever entry was
\* there before.
C25_OneEntryPerId ==
    /\ \A i \in Ids : EntriesFor(Stringify(cacheManifest), i) <= 1
    /\ \A i \in Ids : EntriesFor(manifestFile, i) <= 1
    /\ (cpc["p1"] = "putdone" /\ saved["p1"].success) =>
           cacheManifest[cargs["p1"].id] = EntryOf("p1")

\* a saveToCache for an appraiser saved before with another fingerprint has
\* completed: the prompts log still carries the fingerprint of the earlier call
C25_Witness ==
    /\ cpc["p1"] = "putdone"
    /\ saved["p1"].success
    /\ ~cargs["p1"].prompt
    /\ cargs["p1"].hash = "h2"
    /\ promptsLog[cargs["p1"].id] = "h1"
    /\ cacheManifest[cargs["p1"].id].hash = "h2"
    /\ EntriesFor(manifestFile, cargs["p1"].id) = 1

\* C26: logging never affects control flow: the error the submit catch and the
\* poll catch throw, and the status the API answers, are the ones they throw and
\* answer when every logging call made along the way returns.
C26_LoggingNoEffect ==
    /\ thrown.submit # <<>> =>
           thrown.submit = SubmitErrorWith(LoggerMethodsEnhanced, axiosError)
    /\ thrown.poll # <<>> =>
           thrown.poll = PollErrorWith(LoggerMethodsEnhanced, axiosError)
    /\ answered.submit # 0 =>
           answered.submit =
               StatusForWith(LoggerMethodsEnhanced,
                   ErrorResult(SubmitErrorWith(LoggerMethodsEnhanced, axiosError)))
    /\ answered.poll # 0 =>
           answered.poll =
               StatusForWith(LoggerMethodsEnhanced,
                   ErrorResult(PollErrorWith(LoggerMethodsEnhanced, axiosError)))

\* shouldRegenerateImage was asked about an appraiser that has an entry, cached
\* less than six months ago, with a fingerprint other than the entry's
ChangedAttribute ==
    /\ regen # NoRegen
    /\ cacheManifest[regen.id] # NoEntry
    /\ cacheManifest[regen.id].hash # regen.newHash
    /\ ~ExceedsMaxAge(cacheManifest[regen.id].cachedAt, now)

\* C27: for an appraiser that has an entry which is not expired, a fingerprint
\* that differs from the entry's makes shouldRegenerateImage answer true, so
\* that the caller generates a new image instead of using the cached one.
C27_MismatchRegenerates == ChangedAttribute => regen.result

C27_Witness == ChangedAttribute /\ regen.result

MissingAppraiser == nreq > 0 /\ req.id = NoId

\* C29: a request to POST /api/generate without appraiser object or without
\* appraiser id is answered 400 at once, and neither the prompt builder, the
\* provider adapter, a download nor an upload is called for it.
C29_MissingIdRejected ==
    MissingAppraiser =>
        /\ pc = "done"
        /\ httpStatus = 400
        /\ calls = NoCalls
        /\ prompt = "none"
        /\ result = NoResult

C29_Witness == MissingAppraiser /\ pc = "done" /\ httpStatus = 400

\* GET /api/prompt/:appraiserId is answered for the appraiser whose generation
\* through POST /api/generate has just been answered 200
PromptAsked(id) ==
    /\ pc = "done"
    /\ req.id = id
    /\ Succeeded
    /\ httpStatus = 200
    /\ GetPrompt(id)
    /\ UNCHANGED <<genVars, cacheVars, hashVars, catchVars, cancelled, bulkVars,
                   cdnVars>>

\* C30: after a successful generation for an appraiser through POST
\* /api/generate, GET /api/prompt/<id> answers 200 with the prompt, not 404.
C30_PromptAfterGenerate ==
    [][\A id \in Ids : PromptAsked(id) => promptAnswer'.status = 200]_vars


----------------------------------------------------------------------------
(* C31 *)

\* the adapter call of the request has returned { imageUrl, success: true }
AdapterSucceeded ==
    pc \in {"download", "l_download", "up_buffer", "up_base64", "up_recover",
            "up_url"}

\* the adapter met a submit answer without id or a Ready answer without sample
NoArtifact == cause \in {"noid", "nosample"}

\* C31: the provider adapter returns success only together with a non-empty
\* imageUrl; a Ready status whose result lacks the artifact URL, or a submit
\* answer without a job id, makes it throw ('No image URL in response',
\* 'Failed to obtain request ID ...') and return nothing.
C31_SuccessHasUrl ==
    /\ AdapterSucceeded => generatedImage = "bfl_sample"
    /\ (NoArtifact /\ pc \in {"respond", "l_respond"}) =>
           /\ generatedImage = "none"
           /\ adapterErr \in {MsgNoRequestId, MsgNoImageUrl}
           /\ result.kind \notin {"success", "fallback"}

C31_Witness ==
    /\ cause = "nosample"
    /\ pc = "respond"
    /\ adapterErr = MsgNoImageUrl
    /\ jobStatus = "Ready"

----------------------------------------------------------------------------
(* C32 *)

\* generateImage has returned to the handler of POST /api/generate
GenerateReturned == pc \in {"respond", "done"} /\ result.kind # "none"

\* C32: generateImage returns an error result only when the provider gave no
\* artifact URL; once the adapter has returned a URL, a failed download or
\* failed uploads end in a result whose imageUrl is that URL and which has no
\* error field.
C32_ErrorOnlyWithoutUrl ==
    GenerateReturned =>
        /\ result.kind = "error" => generatedImage = "none"
        /\ (generatedImage # "none" /\ result.kind # "success") =>
               /\ result.kind = "fallback"
               /\ result.imageUrl = generatedImage
               /\ result.error = <<>>

\* the download of the provider's artifact failed
C32_Witness ==
    /\ pc = "respond"
    /\ generatedImage = "bfl_sample"
    /\ calls.download = 1
    /\ imageBuffer = "none"
    /\ uploadLog = <<>>
    /\ result.kind = "fallback"

----------------------------------------------------------------------------
(* C33 *)

\* C33: uploadImage, uploadImageFromUrl and uploadImageFromBase64 never
\* return a result without a url; an empty CDN response and a response
\* without url are raised as errors.
C33_UploadReturnsUrl ==
    \A i \in 1..Len(uploadLog) :
        uploadLog[i].ok => uploadLog[i].sent /\ uploadLog[i].url # "none"

\* the CDN answered the first upload with a response without url, which
\* was raised, and the second with a url, which was returned
C33_Witness ==
    /\ Len(uploadLog) = 2
    /\ uploadLog[1].cdn = "nourl" /\ ~uploadLog[1].ok
    /\ uploadLog[2].fn = "uploadImageFromUrl"
    /\ uploadLog[2].ok /\ uploadLog[2].url = "ik_url"
    /\ adapterErr = <<>>

----------------------------------------------------------------------------
(* C34 *)

\* the calls of client.upload made inside uploadImageFromBase64: its own and
\* the one of the uploadImage it calls to recover
Base64Attempts ==
    Cardinality({i \in 1..Len(uploadLog) :
                    uploadLog[i].sent /\ uploadLog[i].fn # "uploadImageFromUrl"})

\* uploadImageFromBase64 was called, tried to recover, and the recovery failed
RecoveryFailed ==
    /\ Len(uploadLog) >= 2
    /\ uploadLog[1].fn = "uploadImageFromBase64"
    /\ uploadLog[2].fn = "uploadImage"
    /\ ~uploadLog[2].ok

\* C34: uploadImageFromBase64 makes at most two CDN upload attempts, its own
\* and at most one recovery through the buffer, and when the recovery fails
\* too it raises the error of its own upload, not the error of the recovery.
C34_OriginalErrorRaised ==
    (uploadLog # <<>> /\ uploadLog[1].fn = "uploadImageFromBase64") =>
        /\ Base64Attempts <= 2
        /\ RecoveryFailed =>
               uploadLog[1].raised = ErrorOf(1, uploadLog[1].cdn)

C34_Witness ==
    /\ RecoveryFailed
    /\ Base64Attempts = 2
    /\ uploadLog[1].cdn = "err_base64"
    /\ uploadLog[2].cdn = "err"
    /\ uploadLog[1].raised = ErrorOf(1, "err_base64")

----------------------------------------------------------------------------
(* C35 *)

\* C35: for every interleaving of concurrent callers ensureImageKitClient
\* constructs the CDN client at most once, and all callers hold the same
\* object.
C35_ClientConstructedOnce ==
    /\ constructed <= 1
    /\ \A p, q \in Procs :
           (eclient[p] # 0 /\ eclient[q] # 0) => eclient[p] = eclient[q]

----------------------------------------------------------------------------
(* C36 *)

\* generateImage is running for an entity of the bulk job
Generating == bulk = "running" /\ pc \notin {"idle", "done"}

\* C36: within one bulk job the entities are generated one at a time in the
\* order of the request: while the entity at position k is being generated
\* the results of the k - 1 entities before it are recorded and no other, and
\* the results follow the order of the request list.
C36_BulkSequentialInOrder ==
    /\ Len(results) <= Len(appraisers)
    /\ \A i \in 1..Len(results) : results[i].id = appraisers[i]
    /\ Generating =>
           /\ bulkIndex \in 1..Len(appraisers)
           /\ req.id = appraisers[bulkIndex]
           /\ Len(results) = bulkIndex - 1

\* the second of two different entities is being generated after the first
\* was recorded
C36_Witness ==
    /\ Generating
    /\ bulkIndex = 2
    /\ appraisers[1] # appraisers[2]
    /\ Len(results) = 1
    /\ results[1].id = appraisers[1]
    /\ pc = "poll"

----------------------------------------------------------------------------
(* C37 *)

\* the appraisers the batches taken so far cover
Covered ==
    IF scriptIndex < Len(scriptAppraisers) THEN scriptIndex
    ELSE Len(scriptAppraisers)

\* C37: for every list and every batch size of at least 1, generateImages
\* takes consecutive batches that cover each appraiser once and returns an
\* array with one result per appraiser, whether the batch requests succeed
\* or fail.
C37_OneResultPerAppraiser ==
    /\ scriptPc # "threw"
    /\ scriptPc \in {"loop", "returned"} =>
           /\ Len(scriptResults) = Covered
           /\ \A k \in 1..Len(scriptResults) :
                  scriptResults[k].appraiserId = scriptAppraisers[k]
    /\ scriptPc = "returned" => Len(scriptResults) = Len(scriptAppraisers)
====
